---- MODULE Spec2Model ----
(***************************************************************************)
(* Model of the resilient operation layer of mcp-gemini-filesearch:        *)
(*   - the error values, isRetryable and parseGeminiError                  *)
(*     (src/src/lib/error-handler.ts),                                     *)
(*   - retryWithBackoff as a state machine (one call, attempt by attempt), *)
(*   - GeminiClient (src/src/lib/gemini-client.ts): the store id, the      *)
(*     find-or-create resolution and the operations that use it, run as    *)
(*     cooperative tasks that suspend at every remote call.                *)
(***************************************************************************)
EXTENDS Integers, Sequences, FiniteSets, TLC

(***************************************************************************)
(* Bounds of the model.                                                    *)
(***************************************************************************)
MaxAttemptsBound == 3
MaxTasks == 2
MaxOps == 2

VARIABLES
  retry,          \* the retryWithBackoff call of the retry specification
  remoteStores,   \* the remote service's collections, in creation order
  remoteFiles,    \* the remote service's uploaded files (ids)
  storeId,        \* GeminiClient.storeId (0: null)
  storeName,      \* GeminiClient.storeName ("": null)
  tasks,          \* the client calls in flight, one record per slot
  opsStarted,     \* history: number of client calls started
  uploads,        \* history: number of files the remote service has stored
  resolutions,    \* history: resolutions begun by uploadDocument / ensureFileStore
  resolvedId,     \* history: id returned by the last successful direct resolve call
  probe,          \* one application of the pure functions of error-handler.ts
  peer,           \* a second server process resolving against the same service
  server,         \* the dispatch layer: the tool call of each slot and its response
  docs,           \* the fingerprints uploadDocument computed, upload by upload
  pair,           \* two retryWithBackoff calls in progress in one process
  disk,           \* the local file system and the uploadDocument call working on it
  pager           \* the list_documents calls made on one listing and the pages they returned

(***************************************************************************)
(* Error values.                                                           *)
(* A message is modelled by a label for its text and by the set of the     *)
(* classifier's keywords that its lower-cased text contains; `id` is the   *)
(* store id quoted in the text (0: none).                                  *)
(***************************************************************************)
Msg(text, kw, id) == [text |-> text, kw |-> kw, id |-> id]

NoMsg == Msg("", {}, 0)

NoDetails == [present |-> FALSE, original_error |-> NoMsg, name |-> ""]

ErrorCode ==
  {"FILE_TOO_LARGE", "INVALID_FILE_TYPE", "FILE_NOT_FOUND", "UPLOAD_FAILED",
   "DOWNLOAD_FAILED", "INDEXING_TIMEOUT", "INDEXING_FAILED", "QUERY_FAILED",
   "STORE_NOT_FOUND", "STORE_ACCESS_DENIED", "RATE_LIMITED", "API_ERROR",
   "AUTH_FAILED", "VALIDATION_ERROR", "INVALID_INPUT", "NETWORK_ERROR",
   "UNKNOWN_ERROR"}

\* new MCPError(code, message, retryable, details)
MCPError(code, message, retryable, details) ==
  [tag |-> "MCPError", code |-> code, message |-> message,
   retryable |-> retryable, details |-> details, name |-> "MCPError",
   status |-> 0]

\* new MCPError(code, message): the retryable parameter takes its default
\* value and there are no details
MCPErrorDefaulted(code, message) == MCPError(code, message, FALSE, NoDetails)

\* MCPError.toErrorResponse()
toErrorResponse(error) ==
  [error |-> TRUE, error_code |-> error.code, message |-> error.message,
   retryable |-> error.retryable, details |-> error.details]

\* a thrown Error object that is not an MCPError (status 0: no status field)
GenericError(name, message, status) ==
  [tag |-> "Error", code |-> "", message |-> message, retryable |-> FALSE,
   details |-> NoDetails, name |-> name, status |-> status]

\* a thrown plain string
StringFailure(message) ==
  [tag |-> "string", code |-> "", message |-> message, retryable |-> FALSE,
   details |-> NoDetails, name |-> "", status |-> 0]

\* a thrown plain object that is not an Error (status 0: no status field)
ObjectFailure(status) ==
  [tag |-> "object", code |-> "", message |-> NoMsg, retryable |-> FALSE,
   details |-> NoDetails, name |-> "", status |-> status]

\* a thrown null / undefined / number
NullFailure ==
  [tag |-> "null", code |-> "", message |-> NoMsg, retryable |-> FALSE,
   details |-> NoDetails, name |-> "", status |-> 0]

RETRYABLE_ERROR_CODES ==
  {"RATE_LIMITED", "NETWORK_ERROR", "INDEXING_TIMEOUT", "API_ERROR"}

RETRYABLE_HTTP_STATUS_CODES_5xx == {500, 502, 503, 504}

RETRYABLE_HTTP_STATUS_CODES == {408, 429, 500, 502, 503, 504}

isRetryableAnyStatus(error) ==
  IF error.tag = "MCPError"
    THEN error.retryable \/ error.code \in RETRYABLE_ERROR_CODES
    ELSE /\ error.tag \in {"Error", "object"}
         /\ error.status # 0

isRetryableFlagOnly(error) ==
  IF error.tag = "MCPError"
    THEN error.retryable
    ELSE /\ error.tag \in {"Error", "object"}
         /\ error.status # 0
         /\ error.status \in RETRYABLE_HTTP_STATUS_CODES

isRetryable(error) ==
  IF error.tag = "MCPError"
    THEN error.retryable \/ error.code \in RETRYABLE_ERROR_CODES
    ELSE /\ error.tag \in {"Error", "object"}
         /\ error.status # 0
         /\ error.status \in RETRYABLE_HTTP_STATUS_CODES

Includes(message, keyword) == keyword \in message.kw

UnknownErrorMsg == Msg("Unknown error occurred", {}, 0)

parseGeminiErrorRewrap(error) ==
  IF error.tag \in {"MCPError", "Error"} THEN
    LET message == error.message
        details == [present |-> TRUE, original_error |-> error.message,
                    name |-> error.name]
    IN  IF Includes(message, "too large") \/ Includes(message, "file size")
          THEN MCPError("FILE_TOO_LARGE", error.message, FALSE, details)
        ELSE IF Includes(message, "invalid file") \/ Includes(message, "unsupported")
          THEN MCPError("INVALID_FILE_TYPE", error.message, FALSE, details)
        ELSE IF Includes(message, "rate limit") \/ Includes(message, "quota")
          THEN MCPError("RATE_LIMITED", error.message, TRUE, details)
        ELSE IF \/ Includes(message, "auth")
                \/ Includes(message, "unauthorized")
                \/ Includes(message, "api key")
          THEN MCPError("AUTH_FAILED", error.message, FALSE, details)
        ELSE IF Includes(message, "store") /\ Includes(message, "not found")
          THEN MCPError("STORE_NOT_FOUND", error.message, FALSE, details)
        ELSE IF \/ Includes(message, "network")
                \/ Includes(message, "timeout")
                \/ Includes(message, "econnrefused")
                \/ Includes(message, "enotfound")
          THEN MCPError("NETWORK_ERROR", error.message, TRUE, details)
        ELSE MCPError("API_ERROR", error.message, TRUE, details)
  ELSE IF error.tag = "string"
    THEN MCPError("UNKNOWN_ERROR", error.message, FALSE, NoDetails)
  ELSE MCPError("UNKNOWN_ERROR", UnknownErrorMsg, FALSE, NoDetails)

parseGeminiErrorAuthFirst(error) ==
  IF error.tag = "MCPError" THEN error
  ELSE IF error.tag = "Error" THEN
    LET message == error.message
        details == [present |-> TRUE, original_error |-> error.message,
                    name |-> error.name]
    IN  IF Includes(message, "too large") \/ Includes(message, "file size")
          THEN MCPError("FILE_TOO_LARGE", error.message, FALSE, details)
        ELSE IF Includes(message, "invalid file") \/ Includes(message, "unsupported")
          THEN MCPError("INVALID_FILE_TYPE", error.message, FALSE, details)
        ELSE IF \/ Includes(message, "auth")
                \/ Includes(message, "unauthorized")
                \/ Includes(message, "api key")
          THEN MCPError("AUTH_FAILED", error.message, FALSE, details)
        ELSE IF Includes(message, "rate limit") \/ Includes(message, "quota")
          THEN MCPError("RATE_LIMITED", error.message, TRUE, details)
        ELSE IF Includes(message, "store") /\ Includes(message, "not found")
          THEN MCPError("STORE_NOT_FOUND", error.message, FALSE, details)
        ELSE IF \/ Includes(message, "network")
                \/ Includes(message, "timeout")
                \/ Includes(message, "econnrefused")
                \/ Includes(message, "enotfound")
          THEN MCPError("NETWORK_ERROR", error.message, TRUE, details)
        ELSE MCPError("API_ERROR", error.message, TRUE, details)
  ELSE IF error.tag = "string"
    THEN MCPError("UNKNOWN_ERROR", error.message, FALSE, NoDetails)
  ELSE MCPError("UNKNOWN_ERROR", UnknownErrorMsg, FALSE, NoDetails)

parseGeminiError(error) ==
  IF error.tag = "MCPError" THEN error
  ELSE IF error.tag = "Error" THEN
    LET message == error.message
        details == [present |-> TRUE, original_error |-> error.message,
                    name |-> error.name]
    IN  IF Includes(message, "too large") \/ Includes(message, "file size")
          THEN MCPError("FILE_TOO_LARGE", error.message, FALSE, details)
        ELSE IF Includes(message, "invalid file") \/ Includes(message, "unsupported")
          THEN MCPError("INVALID_FILE_TYPE", error.message, FALSE, details)
        ELSE IF Includes(message, "rate limit") \/ Includes(message, "quota")
          THEN MCPError("RATE_LIMITED", error.message, TRUE, details)
        ELSE IF \/ Includes(message, "auth")
                \/ Includes(message, "unauthorized")
                \/ Includes(message, "api key")
          THEN MCPError("AUTH_FAILED", error.message, FALSE, details)
        ELSE IF Includes(message, "store") /\ Includes(message, "not found")
          THEN MCPError("STORE_NOT_FOUND", error.message, FALSE, details)
        ELSE IF \/ Includes(message, "network")
                \/ Includes(message, "timeout")
                \/ Includes(message, "econnrefused")
                \/ Includes(message, "enotfound")
          THEN MCPError("NETWORK_ERROR", error.message, TRUE, details)
        ELSE MCPError("API_ERROR", error.message, TRUE, details)
  ELSE IF error.tag = "string"
    THEN MCPError("UNKNOWN_ERROR", error.message, FALSE, NoDetails)
  ELSE MCPError("UNKNOWN_ERROR", UnknownErrorMsg, FALSE, NoDetails)

(***************************************************************************)
(* The failures a unit of work may throw in the retry specification.       *)
(***************************************************************************)
RetryFailures ==
  { MCPError("NETWORK_ERROR", Msg("Network error", {"network"}, 0), TRUE, NoDetails),
    MCPError("FILE_NOT_FOUND", Msg("Not found", {"not found"}, 0), FALSE, NoDetails),
    MCPError("API_ERROR", Msg("API error", {}, 0), FALSE, NoDetails),
    MCPError("UPLOAD_FAILED", Msg("Upload failed", {}, 0), TRUE, NoDetails),
    GenericError("Error", Msg("Rate limit exceeded", {"rate limit"}, 0), 0),
    GenericError("Error", Msg("fetch failed", {}, 0), 0),
    GenericError("Error", Msg("Service unavailable", {}, 0), 503),
    GenericError("Error", Msg("Invalid API key", {"api key"}, 0), 400),
    StringFailure(Msg("string error", {}, 0)),
    ObjectFailure(429),
    NullFailure }

(***************************************************************************)
(* retryWithBackoff, one call.  `retry` holds the locals of the call       *)
(* (attempt, lastError, the destructured options) and, as history, what    *)
(* the call has done: the outcomes of the unit of work, the waits and the  *)
(* observer calls.                                                         *)
(***************************************************************************)
NoFailure ==
  [tag |-> "none", code |-> "", message |-> NoMsg, retryable |-> FALSE,
   details |-> NoDetails, name |-> "", status |-> 0]

OkOutcome ==
  [tag |-> "ok", code |-> "", message |-> NoMsg, retryable |-> FALSE,
   details |-> NoDetails, name |-> "", status |-> 0]

DEFAULT_DELAYS == <<500, 1000, 2000>>

DelaySchedules == {DEFAULT_DELAYS, <<100>>, << >>}

\* Math.random() * 200
JitterValues == {0, 199}

RetryIdle ==
  [pc |-> "idle", maxAttempts |-> 0, delays |-> << >>, attempt |-> 0,
   calls |-> 0, lastError |-> NoFailure, thrown |-> NoFailure,
   outcomes |-> << >>, sleeps |-> << >>, observed |-> << >>,
   resolved |-> 0, returned |-> 0]

\* two calls of retryWithBackoff that are in progress at the same time
PairIds == {1, 2}

PairIdle == [c \in PairIds |-> RetryIdle]

\* what the unit of work may resolve with (0: nothing yet)
ResultValues == {1, 2}

\* const { maxAttempts = 3, delays = DEFAULT_DELAYS } = options;
\* attempt = 1; the loop test; the first `await fn()`
RetryBegin(maxAttempts, delays) ==
  IF 1 <= maxAttempts
    THEN [RetryIdle EXCEPT !.pc = "inflight", !.maxAttempts = maxAttempts,
                           !.delays = delays, !.attempt = 1, !.calls = 1]
    ELSE [RetryIdle EXCEPT !.pc = "thrown", !.maxAttempts = maxAttempts,
                           !.delays = delays, !.attempt = 1]

RetryOnResolveDropsValue(r, value) ==
  [r EXCEPT !.pc = "returned", !.outcomes = Append(@, OkOutcome),
            !.resolved = value]

\* return await fn();   (resolved: what fn resolved with, returned: what the
\* call returns)
RetryOnResolve(r, value) ==
  [r EXCEPT !.pc = "returned", !.outcomes = Append(@, OkOutcome),
            !.resolved = value, !.returned = value]

IsFinalAttemptOffByOne(attempt, maxAttempts) == attempt + 1 >= maxAttempts

\* attempt === maxAttempts
IsFinalAttempt(attempt, maxAttempts) == attempt = maxAttempts

BaseDelayNoClamp(delays, attempt) ==
  IF attempt <= Len(delays) THEN delays[attempt] ELSE 1000

\* delays[attempt - 1] ?? delays[delays.length - 1] ?? 1000
BaseDelay(delays, attempt) ==
  IF attempt <= Len(delays) THEN delays[attempt]
  ELSE IF Len(delays) > 0 THEN delays[Len(delays)]
  ELSE 1000

\* const jitter = Math.random() * 200; const delay = baseDelay + jitter;
Delay(delays, attempt, jitter) ==
  [base |-> BaseDelay(delays, attempt), jitter |-> jitter,
   delay |-> BaseDelay(delays, attempt) + jitter]

RethrownClassified(error) == parseGeminiError(error)

\* throw error;
Rethrown(error) == error

RetryOnRejectObserveAll(r, error, jitter) ==
  IF IsFinalAttempt(r.attempt, r.maxAttempts) \/ ~isRetryable(error)
    THEN [r EXCEPT !.pc = "thrown", !.lastError = error,
                   !.thrown = Rethrown(error),
                   !.outcomes = Append(@, error),
                   !.observed = Append(@, [attempt |-> r.attempt, error |-> error])]
    ELSE [r EXCEPT !.pc = "sleeping", !.lastError = error,
                   !.outcomes = Append(@, error),
                   !.observed = Append(@, [attempt |-> r.attempt, error |-> error]),
                   !.sleeps = Append(@, Delay(r.delays, r.attempt, jitter))]

RetryOnRejectEager(r, error, jitter) ==
  IF IsFinalAttempt(r.attempt, r.maxAttempts) \/ ~isRetryable(error)
    THEN [r EXCEPT !.pc = "thrown", !.lastError = error,
                   !.thrown = Rethrown(error),
                   !.outcomes = Append(@, error)]
    ELSE [r EXCEPT !.pc = "inflight", !.lastError = error,
                   !.attempt = @ + 1, !.calls = @ + 1,
                   !.outcomes = Append(@, error),
                   !.observed = Append(@, [attempt |-> r.attempt, error |-> error]),
                   !.sleeps = Append(@, Delay(r.delays, r.attempt, jitter))]

\* catch (error) { ... } of one attempt
RetryOnReject(r, error, jitter) ==
  IF IsFinalAttempt(r.attempt, r.maxAttempts) \/ ~isRetryable(error)
    THEN [r EXCEPT !.pc = "thrown", !.lastError = error,
                   !.thrown = Rethrown(error),
                   !.outcomes = Append(@, error)]
    ELSE [r EXCEPT !.pc = "sleeping", !.lastError = error,
                   !.outcomes = Append(@, error),
                   !.observed = Append(@, [attempt |-> r.attempt, error |-> error]),
                   !.sleeps = Append(@, Delay(r.delays, r.attempt, jitter))]

RetryOnSleepElapsedSameAttempt(r) ==
  [r EXCEPT !.pc = "inflight", !.calls = @ + 1]

\* await sleep(delay) completes; attempt++; the loop test; the next `await fn()`
RetryOnSleepElapsed(r) ==
  IF r.attempt + 1 <= r.maxAttempts
    THEN [r EXCEPT !.pc = "inflight", !.attempt = @ + 1, !.calls = @ + 1]
    ELSE [r EXCEPT !.pc = "thrown", !.attempt = @ + 1, !.thrown = r.lastError]

\* the variables of the other specifications
auxVars == <<probe, peer, server, docs, pair, disk, pager>>

clientVars ==
  <<remoteStores, remoteFiles, storeId, storeName, tasks, opsStarted, uploads,
    resolutions, resolvedId>>

RetryCall ==
  /\ retry.pc = "idle"
  /\ \E n \in 1..MaxAttemptsBound, d \in DelaySchedules :
       retry' = RetryBegin(n, d)
  /\ UNCHANGED <<auxVars, clientVars>>

FnResolves ==
  /\ retry.pc = "inflight"
  /\ \E v \in ResultValues : retry' = RetryOnResolve(retry, v)
  /\ UNCHANGED <<auxVars, clientVars>>

FnRejects ==
  /\ retry.pc = "inflight"
  /\ \E e \in RetryFailures, j \in JitterValues :
       retry' = RetryOnReject(retry, e, j)
  /\ UNCHANGED <<auxVars, clientVars>>

SleepElapsed ==
  /\ retry.pc = "sleeping"
  /\ retry' = RetryOnSleepElapsed(retry)
  /\ UNCHANGED <<auxVars, clientVars>>


(***************************************************************************)
(* GeminiClient.  Every call runs as a task; a task is suspended at a      *)
(* remote call (pc names the pending call) and the step that delivers the  *)
(* response runs the continuation up to the next remote call or to the     *)
(* end of the call, as the single-threaded scheduler does.                 *)
(***************************************************************************)
TaskIds == 1..MaxTasks

StoreNames == {"X", "Y"}

\* the displayName arguments of createFileStore ("": no display name)
CreateNames == {"X", ""}

\* the display names resolveStoreByDisplayName is called with directly
ResolveNames == {"X"}

LocalFiles == {"/docs/a.pdf"}

Sources == {"/docs/a.pdf", "/missing.pdf"}

\* listFileStores(20)
ListPageSize == 20

NoNet == [list |-> 0, create |-> 0, check |-> 0, files |-> 0]

NoResult == [status |-> "none", value |-> 0, error |-> NoFailure]

IdleTask ==
  [op |-> "none", pc |-> "idle", arg |-> "", displayName |-> "",
   doc |-> 0, spans |-> 0, net |-> NoNet, result |-> NoResult,
   listed |-> << >>, found |-> 0, scanned |-> << >>, existing |-> 0,
   created |-> 0, prior |-> 0, sidAtStart |-> 0, call |-> "", wrapped |-> FALSE,
   r |-> RetryIdle, hashed |-> FALSE, hashNet |-> NoNet]

NewTask(op, arg, displayName) ==
  [IdleTask EXCEPT !.op = op, !.arg = arg, !.displayName = displayName,
                   !.sidAtStart = storeId,
                   !.prior = IF displayName \in StoreNames
                               THEN resolvedId[displayName] ELSE 0]

\* the call ends by returning `value`
Return(task, value) ==
  [task EXCEPT !.pc = "done", !.call = "", !.wrapped = FALSE, !.r = RetryIdle,
               !.spans = 0,
               !.result = [status |-> "ok", value |-> value, error |-> NoFailure]]

handleErrorsRewrap(error) == parseGeminiErrorRewrap(error)

\* handleErrors: catch (error) { throw parseGeminiError(error) }
handleErrors(error) == parseGeminiError(error)

\* the call ends by throwing `error` through its handleErrors wrappers
Throw(task, error) ==
  [task EXCEPT !.pc = "done", !.call = "", !.wrapped = FALSE, !.r = RetryIdle,
               !.spans = 0,
               !.result = [status |-> "err", value |-> 0,
                           error |-> handleErrors(error)]]

\* the history kept inside a task's retry record is not tracked
Forget(r) ==
  [r EXCEPT !.outcomes = << >>, !.sleeps = << >>, !.observed = << >>,
            !.resolved = 0, !.returned = 0]

\* the remote service without a page bound
ListingAll(stores) == stores

\* the page of collections the remote service returns
Listing(stores) ==
  SubSeq(stores, 1, IF Len(stores) < ListPageSize THEN Len(stores) ELSE ListPageSize)

MatchingStoreNone(stores, displayName) == 0

\* stores.find((store) => store.displayName === displayName)?.name  (0: undefined)
MatchingStore(stores, displayName) ==
  LET hits == {i \in DOMAIN stores : stores[i].displayName = displayName}
  IN  IF hits = {} THEN 0
      ELSE stores[CHOOSE i \in hits : \A j \in hits : i <= j].name

StoreNotConfiguredRetryable ==
  MCPError("STORE_NOT_FOUND",
           Msg("File Store name is not configured", {"store"}, 0),
           TRUE, NoDetails)

\* the error of lines 84-88
StoreNotConfigured ==
  MCPError("STORE_NOT_FOUND",
           Msg("File Store name is not configured", {"store"}, 0),
           FALSE, NoDetails)

ListFailed ==
  MCPError("API_ERROR", Msg("Failed to list File Stores", {"store"}, 0),
           TRUE, NoDetails)

CreateFailed ==
  MCPError("API_ERROR", Msg("Failed to create File Store", {"store"}, 0),
           FALSE, NoDetails)

CheckFailed ==
  MCPError("API_ERROR", Msg("Failed to check File Store", {"store"}, 0),
           TRUE, NoDetails)

StoreMissing(id) ==
  MCPError("STORE_NOT_FOUND", Msg("File Store not found", {"store", "not found"}, id),
           FALSE, NoDetails)

FileNotFound ==
  MCPError("FILE_NOT_FOUND", Msg("File not found", {"not found"}, 0),
           FALSE, NoDetails)

AlreadyExistsInDetails(id) ==
  MCPError("API_ERROR", Msg("already exists", {"store"}, 0), FALSE,
           [present |-> TRUE, original_error |-> Msg("", {}, id), name |-> ""])

\* the MCPError of createFileStore's existence scan
AlreadyExists(id) ==
  MCPError("API_ERROR", Msg("already exists", {"store"}, id), FALSE, NoDetails)

\* fetch() rejects
FetchRejected == GenericError("TypeError", Msg("fetch failed", {}, 0), 0)

\* a remote service that refuses a second collection of the same display name
RemoteCreateUnique(stores, displayName) ==
  IF \E i \in DOMAIN stores : stores[i].displayName = displayName
    THEN stores
    ELSE Append(stores, [name |-> Len(stores) + 1, displayName |-> displayName])

\* the remote service serves the create-collection POST: a new collection
\* with a fresh id, whatever collections exist
RemoteCreate(stores, displayName) ==
  Append(stores, [name |-> Len(stores) + 1, displayName |-> displayName])

\* how the fetch of listFileStores may settle
FetchOutcomes == {"ok", "http_error", "network_error"}

\* how the POST of createFileStore may settle
PostOutcomes == {"ok", "http_error"}

\* how the fetch of checkFileStoreExists may settle
CheckOutcomes == {"ok", "not_found", "http_error"}

NeedsResolutionAlways(sid) == TRUE

\* if (!this.storeId)
NeedsResolution(sid) == sid = 0

StoreIdAfterResolveAlways(op, sid, id) == id

\* this.storeId = await this.resolveStoreByDisplayName(this.storeName)
\* in uploadDocument and ensureFileStore; a direct call assigns nothing
StoreIdAfterResolve(op, sid, id) ==
  IF op \in {"uploadDocument", "ensureFileStore"} THEN id ELSE sid


\* a remote call is issued from inside the task
Issue(task, kind) ==
  CASE kind = "list"   -> [task EXCEPT !.net.list = @ + 1]
    [] kind = "create" -> [task EXCEPT !.net.create = @ + 1]
    [] kind = "check"  -> [task EXCEPT !.net.check = @ + 1]
    [] kind = "files"  -> [task EXCEPT !.net.files = @ + 1]

\* retryWithBackoff(async () => sdkCall(...), options) begins (net.files counts
\* the SDK calls an operation makes, each retried call once)
CallWithRetry(task, call, maxAttempts) ==
  [Issue(task, "files") EXCEPT !.pc = "call", !.call = call, !.wrapped = TRUE,
                               !.r = Forget(RetryBegin(maxAttempts, DEFAULT_DELAYS))]

\* await sdkCall(...) outside any retryWithBackoff
CallBare(task, call) ==
  [Issue(task, "files") EXCEPT !.pc = "call", !.call = call, !.wrapped = FALSE]

UploadContinueUnhashed(task) ==
  IF task.arg \notin LocalFiles
    THEN Throw(task, FileNotFound)
    ELSE CallWithRetry(task, "uploadFile", 3)

\* uploadDocument from ensureLocalFile on (lines 98-135): calculateFileHash
\* and generateDedupeKey (108-109; hashNet: the remote calls this call had
\* issued by then), then the upload
UploadContinue(task) ==
  IF task.arg \notin LocalFiles
    THEN Throw(task, FileNotFound)
    ELSE CallWithRetry([task EXCEPT !.hashed = TRUE, !.hashNet = task.net],
                       "uploadFile", 3)

\* ensureFileStore: checkFileStoreExists(this.storeId) (line 738)
EnsureContinue(task) ==
  [Issue(task, "check") EXCEPT !.pc = "check"]

\* resolveStoreByDisplayName has returned `id` to its caller
AfterResolve(task, id) ==
  CASE task.op = "resolveStoreByDisplayName" -> Return(task, id)
    [] task.op = "uploadDocument" -> UploadContinue(task)
    [] task.op = "ensureFileStore" -> EnsureContinue(task)

\* createFileStore has returned `id` to its caller
AfterCreate(task, id) ==
  IF task.op = "createFileStore" THEN Return(task, id) ELSE AfterResolve(task, id)

\* createFileStore(displayName) up to its first remote call (lines 626-652)
CreateBegin(task) ==
  IF task.displayName # ""
    THEN [Issue(task, "list") EXCEPT !.pc = "create_list"]
    ELSE [Issue(task, "create") EXCEPT !.pc = "create_post"]

\* resolveStoreByDisplayName up to its first remote call (lines 596-600)
ResolveBegin(task) == [Issue(task, "list") EXCEPT !.pc = "resolve_list"]

\* the id a direct resolveStoreByDisplayName call has just returned, if any
Resolved(task) ==
  IF /\ task.op = "resolveStoreByDisplayName"
     /\ task.pc = "done"
     /\ task.result.status = "ok"
    THEN [resolvedId EXCEPT ![task.displayName] = task.result.value]
    ELSE resolvedId

\* a new call takes the first slot never used, or else the first slot whose
\* call has ended (slots have no meaning in the program)
CanStart(t) ==
  /\ opsStarted < MaxOps
  /\ LET idle == {u \in TaskIds : tasks[u].pc = "idle"}
         done == {u \in TaskIds : tasks[u].pc = "done"}
     IN  IF idle # {} THEN t \in idle /\ \A u \in idle : t <= u
         ELSE t \in done /\ \A u \in done : t <= u

Started == opsStarted' = opsStarted + 1

\* uploadDocument(source) up to its first remote call
StartUploadDocument(t) ==
  /\ CanStart(t)
  /\ Started
  /\ \E source \in Sources :
       LET task == NewTask("uploadDocument", source, storeName)
       IN  IF NeedsResolution(storeId)
             THEN IF storeName = ""
                    THEN /\ tasks' = [tasks EXCEPT ![t] = Throw(task, StoreNotConfigured)]
                         /\ UNCHANGED resolutions
                    ELSE /\ tasks' = [tasks EXCEPT ![t] = ResolveBegin(task)]
                         /\ resolutions' = resolutions + 1
             ELSE /\ tasks' = [tasks EXCEPT ![t] = UploadContinue(task)]
                  /\ UNCHANGED resolutions
  /\ UNCHANGED <<auxVars, retry, remoteStores, remoteFiles, storeId, storeName, uploads, resolvedId>>

\* ensureFileStore() up to its first remote call
StartEnsureFileStore(t) ==
  /\ CanStart(t)
  /\ Started
  /\ LET task == NewTask("ensureFileStore", "", storeName)
     IN  IF NeedsResolution(storeId)
           THEN IF storeName = ""
                  THEN /\ tasks' = [tasks EXCEPT ![t] = Throw(task, StoreNotConfigured)]
                       /\ UNCHANGED resolutions
                  ELSE /\ tasks' = [tasks EXCEPT ![t] = ResolveBegin(task)]
                       /\ resolutions' = resolutions + 1
           ELSE /\ tasks' = [tasks EXCEPT ![t] = EnsureContinue(task)]
                /\ UNCHANGED resolutions
  /\ UNCHANGED <<auxVars, retry, remoteStores, remoteFiles, storeId, storeName, uploads, resolvedId>>

\* createFileStore(displayName?) up to its first remote call
StartCreateFileStore(t) ==
  /\ CanStart(t)
  /\ Started
  /\ \E displayName \in CreateNames :
       tasks' = [tasks EXCEPT ![t] =
                   CreateBegin(NewTask("createFileStore", displayName, displayName))]
  /\ UNCHANGED <<auxVars, retry, remoteStores, remoteFiles, storeId, storeName, uploads,
                 resolutions, resolvedId>>

\* resolveStoreByDisplayName(displayName), called directly
StartResolveStore(t) ==
  /\ CanStart(t)
  /\ Started
  /\ \E displayName \in ResolveNames :
       tasks' = [tasks EXCEPT ![t] =
                   ResolveBegin(NewTask("resolveStoreByDisplayName", displayName,
                                        displayName))]
  /\ UNCHANGED <<auxVars, retry, remoteStores, remoteFiles, storeId, storeName, uploads,
                 resolutions, resolvedId>>

\* the fetch of listFileStores completes (lines 760-782), then the caller
\* continues: resolveStoreByDisplayName (601-615) or createFileStore (632-652)
ListResponds(t) ==
  /\ tasks[t].pc \in {"resolve_list", "create_list"}
  /\ \E outcome \in FetchOutcomes :
       LET task == tasks[t]
           stores == Listing(remoteStores)
           m == MatchingStore(stores, task.displayName)
           next ==
             IF outcome = "http_error" THEN Throw(task, ListFailed)
             ELSE IF outcome = "network_error" THEN Throw(task, FetchRejected)
             ELSE IF task.pc = "resolve_list"
               THEN LET seen == [task EXCEPT !.listed = stores, !.found = m]
                    IN  IF m # 0 THEN AfterResolve(seen, m) ELSE CreateBegin(seen)
               ELSE LET seen == [task EXCEPT !.scanned = stores, !.existing = m]
                    IN  IF m # 0 THEN Throw(seen, AlreadyExists(m))
                        ELSE [Issue(seen, "create") EXCEPT !.pc = "create_post"]
       IN  /\ tasks' = [tasks EXCEPT ![t] = next]
           /\ storeId' = IF outcome = "ok" /\ task.pc = "resolve_list" /\ m # 0
                           THEN StoreIdAfterResolve(task.op, storeId, m)
                           ELSE storeId
           /\ resolvedId' = Resolved(next)
  /\ UNCHANGED <<auxVars, retry, remoteStores, remoteFiles, storeName, opsStarted, uploads,
                 resolutions>>

\* the POST of createFileStore completes (lines 654-674), then the caller continues
CreateResponds(t) ==
  /\ tasks[t].pc = "create_post"
  /\ \E outcome \in PostOutcomes :
       LET task == tasks[t]
           newId == Len(remoteStores) + 1
           next ==
             IF outcome = "http_error" THEN Throw(task, CreateFailed)
             ELSE AfterCreate([task EXCEPT !.created = newId], newId)
       IN  /\ tasks' = [tasks EXCEPT ![t] = next]
           /\ remoteStores' =
                IF outcome = "ok" THEN RemoteCreate(remoteStores, task.displayName)
                ELSE remoteStores
           /\ storeId' = IF outcome = "ok" THEN newId ELSE storeId
           /\ resolvedId' = Resolved(next)
  /\ UNCHANGED <<auxVars, retry, remoteFiles, storeName, opsStarted, uploads, resolutions>>

\* the fetch of checkFileStoreExists completes (lines 697-711), then
\* ensureFileStore ends (739-745)
CheckResponds(t) ==
  /\ tasks[t].pc = "check"
  /\ \E outcome \in CheckOutcomes :
       LET task == tasks[t]
           exists == \E i \in DOMAIN remoteStores : remoteStores[i].name = storeId
       IN  /\ outcome = "ok" => exists
           /\ outcome = "not_found" => ~exists
           /\ tasks' = [tasks EXCEPT ![t] =
                CASE outcome = "ok" -> Return(task, 0)
                  [] outcome = "not_found" -> Throw(task, StoreMissing(storeId))
                  [] outcome = "http_error" -> Throw(task, CheckFailed)]
  /\ UNCHANGED <<auxVars, retry, remoteStores, remoteFiles, storeId, storeName, opsStarted,
                 uploads, resolutions, resolvedId>>


DocIds == {1}

SpanCounts == {2}

\* failures of the SDK calls (uploadFile, listFiles, getFile, deleteFile,
\* generateContent): an HTTP 503, a rejected fetch, and a 404 for a missing file
SdkUnavailable == GenericError("Error", Msg("Service Unavailable", {}, 0), 503)

SdkNotFound == GenericError("Error", Msg("Not Found", {"not found"}, 0), 404)

SdkFailures == {SdkUnavailable, FetchRejected, SdkNotFound}

\* deleteDocument(docId) up to its first remote call (lines 545-550)
StartDeleteDocument(t) ==
  /\ CanStart(t)
  /\ Started
  /\ \E docId \in DocIds :
       tasks' = [tasks EXCEPT ![t] =
         CallWithRetry([NewTask("deleteDocument", "", "") EXCEPT !.doc = docId],
                       "deleteFile", 3)]
  /\ UNCHANGED <<auxVars, retry, remoteStores, remoteFiles, storeId, storeName, uploads,
                 resolutions, resolvedId>>

\* listDocuments() up to its first remote call (lines 477-487)
StartListDocuments(t) ==
  /\ CanStart(t)
  /\ Started
  /\ tasks' = [tasks EXCEPT ![t] =
       CallWithRetry(NewTask("listDocuments", "", ""), "listFiles", 3)]
  /\ UNCHANGED <<auxVars, retry, remoteStores, remoteFiles, storeId, storeName, uploads,
                 resolutions, resolvedId>>

\* searchDocuments(query) up to its first remote call (lines 322-330)
StartSearchDocuments(t) ==
  /\ CanStart(t)
  /\ Started
  /\ tasks' = [tasks EXCEPT ![t] =
       CallBare(NewTask("searchDocuments", "", ""), "listFiles")]
  /\ UNCHANGED <<auxVars, retry, remoteStores, remoteFiles, storeId, storeName, uploads,
                 resolutions, resolvedId>>

\* getPassages(docId, pageSpans) up to its first remote call (lines 397-406)
StartGetPassages(t) ==
  /\ CanStart(t)
  /\ Started
  /\ \E docId \in DocIds, n \in SpanCounts :
       tasks' = [tasks EXCEPT ![t] =
         CallWithRetry([NewTask("getPassages", "", "") EXCEPT !.doc = docId,
                                                              !.spans = n],
                       "getFile", 3)]
  /\ UNCHANGED <<auxVars, retry, remoteStores, remoteFiles, storeId, storeName, uploads,
                 resolutions, resolvedId>>

\* what the operation does once its SDK call has returned
DocumentStoreIdOfCall(sid, task) == task.sidAtStart + 1

\* the Document's store_id: this.storeId, read when the upload has returned
DocumentStoreId(sid, task) == sid

AfterCall(task) ==
  CASE task.call = "uploadFile" -> Return(task, DocumentStoreId(storeId, task))
    [] task.call = "deleteFile" -> Return(task, 0)
    [] task.call = "listFiles" /\ task.op = "listDocuments" ->
         Return(task, Cardinality(remoteFiles))
    [] task.call = "listFiles" /\ task.op = "searchDocuments" ->
         IF remoteFiles = {} THEN Return(task, 0)
         ELSE CallWithRetry(task, "generateContent", 3)
    [] task.call = "getFile" -> CallWithRetry(task, "generateContent", 3)
    [] task.call = "generateContent" /\ task.op = "searchDocuments" ->
         Return(task, 1)
    [] task.call = "generateContent" /\ task.op = "getPassages" ->
         IF task.spans = 1 THEN Return(task, 1)
         ELSE CallWithRetry([task EXCEPT !.spans = @ - 1], "generateContent", 3)

\* an SDK call settles: the operation continues after a result; the retry loop
\* (if any) handles a rejection, and when it retries, its wait and the next
\* invocation are part of the step: they read and write nothing but the
\* loop's own attempt counter, so they commute with every step of another task
\* (the jitter changes only the length of the wait, which a task does not keep)
CallResponds(t) ==
  /\ tasks[t].pc = "call"
  /\ LET task == tasks[t]
         onFile == task.call \in {"deleteFile", "getFile"}
     IN  \/ /\ onFile => task.doc \in remoteFiles
            /\ tasks' = [tasks EXCEPT ![t] =
                 AfterCall(IF task.wrapped
                             THEN [task EXCEPT !.r = Forget(RetryOnResolve(task.r, 1))]
                             ELSE task)]
            /\ remoteFiles' =
                 CASE task.call = "uploadFile" -> remoteFiles \cup {uploads + 1}
                   [] task.call = "deleteFile" -> remoteFiles \ {task.doc}
                   [] OTHER -> remoteFiles
            /\ uploads' = IF task.call = "uploadFile" THEN uploads + 1 ELSE uploads
         \/ /\ \E e \in SdkFailures :
                 /\ (e = SdkNotFound) => (onFile /\ task.doc \notin remoteFiles)
                 /\ LET r2 == RetryOnReject(task.r, e, 0)
                        r3 == IF r2.pc = "sleeping" THEN RetryOnSleepElapsed(r2)
                              ELSE r2
                    IN  tasks' = [tasks EXCEPT ![t] =
                          IF ~task.wrapped THEN Throw(task, e)
                          ELSE IF r3.pc = "inflight"
                            THEN [task EXCEPT !.r = Forget(r3)]
                            ELSE Throw(task, r3.thrown)]
            /\ UNCHANGED <<remoteFiles, uploads>>
  /\ UNCHANGED <<auxVars, retry, remoteStores, storeId, storeName, opsStarted, resolutions,
                 resolvedId>>

PreStore(displayName) == [name |-> 1, displayName |-> displayName]

\* no pure function has been applied
NoErrorResponse ==
  [error |-> FALSE, error_code |-> "", message |-> NoMsg, retryable |-> FALSE,
   details |-> NoDetails]

\* no pure function has been applied (flagPassed: the input was constructed
\* with an explicit retryable argument)
ProbeIdle ==
  [pc |-> "idle", phrases |-> << >>, input |-> NoFailure, flagPassed |-> FALSE,
   output |-> NoFailure, judged |-> FALSE, again |-> NoFailure,
   response |-> NoErrorResponse,
   depth |-> 0, level |-> 0, invoked |-> 0, value |-> 0, carried |-> 0,
   first |-> NoFailure]

\* a path or URL, as the characters of its prefix followed by the rest
HttpUrl == <<"h", "t", "t", "p", ":", "/", "/", "host/a.pdf">>

HttpsUrl == <<"h", "t", "t", "p", "s", ":", "/", "/", "host/a.pdf">>

\* the absolute path /docs/a.pdf
LocalAbsolute == <<"/", "docs/a.pdf">>

\* the relative path httpdocs/a.pdf
LocalHttpNamed == <<"h", "t", "t", "p", "docs/a.pdf">>

\* the path /missing.pdf, which names no file
MissingPath == <<"/", "missing.pdf">>

\* the `source` arguments of the uploadDocument calls
FileSources == {HttpUrl, HttpsUrl, LocalAbsolute, LocalHttpNamed, MissingPath}

\* the files that exist when the process starts
InitialFiles == {LocalAbsolute, LocalHttpNamed}

\* String.prototype.startsWith
startsWith(s, prefix) ==
  /\ Len(s) >= Len(prefix)
  /\ SubSeq(s, 1, Len(prefix)) = prefix

\* no uploadDocument call has touched the file system
DiskIdle ==
  [pc |-> "idle", source |-> << >>, localPath |-> << >>, files |-> InitialFiles,
   created |-> << >>, existed |-> FALSE, cleanupFailed |-> FALSE, calls |-> 0,
   r |-> RetryIdle, result |-> NoResult]

\* the highest page number asked for
MaxPage == 3

\* no list_documents call has been made
PagerIdle ==
  [pc |-> "idle", files |-> << >>, page_size |-> 1, page |-> 0, calls |-> 0,
   success |-> FALSE, documents |-> << >>, total_count |-> 0, total_pages |-> 0,
   fetched |-> {}, got |-> [p \in 1..MaxPage |-> << >>]]

\* the second process has not started
PeerIdle ==
  [pc |-> "idle", listed |-> << >>, found |-> 0, existing |-> 0, created |-> 0,
   storeId |-> 0, result |-> NoResult]

\* no response has been returned
NoResponse == [isError |-> FALSE, keys |-> {}, message |-> NoMsg, tool |-> ""]

\* the dispatch layer has received no request
ServerIdle ==
  [state |-> "idle", tool |-> "", query |-> "", slot |-> 0, at |-> 0,
   thrown |-> NoFailure, response |-> NoResponse]

\* what the remote service holds when the process starts
InitialRemotes == {<< >>, <<PreStore("X")>>}

vars ==
  <<retry, remoteStores, remoteFiles, storeId, storeName, tasks, opsStarted,
    uploads, resolutions, resolvedId, probe, peer, server, docs,
    pair,
    disk,
    pager>>

Init ==
  /\ retry = RetryIdle
  /\ remoteStores \in InitialRemotes
  /\ remoteFiles = {}
  /\ storeId = 0
  /\ storeName \in {"", "X"}
  /\ tasks = [t \in TaskIds |-> IdleTask]
  /\ opsStarted = 0
  /\ uploads = 0
  /\ resolutions = 0
  /\ resolvedId = [n \in StoreNames |-> 0]
  /\ probe = ProbeIdle
  /\ peer = PeerIdle
  /\ server = ServerIdle
  /\ docs = << >>
  /\ pair = PairIdle
  /\ disk = DiskIdle
  /\ pager = PagerIdle

Next ==
  \E t \in TaskIds :
    \/ StartUploadDocument(t)
    \/ StartEnsureFileStore(t)
    \/ StartCreateFileStore(t)
    \/ StartResolveStore(t)
    \/ StartDeleteDocument(t)
    \/ StartListDocuments(t)
    \/ StartSearchDocuments(t)
    \/ StartGetPassages(t)
    \/ ListResponds(t)
    \/ CreateResponds(t)
    \/ CheckResponds(t)
    \/ CallResponds(t)

Spec == Init /\ [][Next]_vars

(***************************************************************************)
(* The pure functions of error-handler.ts applied to one input.  A message  *)
(* text is a sequence of characters; `message.toLowerCase().includes(k)`    *)
(* is computed on it, and the result is the `kw` field of the message.      *)
(***************************************************************************)
MaxPhrases == 2

\* the deepest nesting of handleErrors wrappers tried (tool handler, client
\* method, download helper)
MaxDepth == 3

\* the keywords parseGeminiError looks for (lines 196-229), as characters
KeywordChars ==
  "too large" :> <<"t", "o", "o", " ", "l", "a", "r", "g", "e">>
  @@ "file size" :> <<"f", "i", "l", "e", " ", "s", "i", "z", "e">>
  @@ "invalid file" :> <<"i", "n", "v", "a", "l", "i", "d", " ", "f", "i", "l", "e">>
  @@ "unsupported" :> <<"u", "n", "s", "u", "p", "p", "o", "r", "t", "e", "d">>
  @@ "rate limit" :> <<"r", "a", "t", "e", " ", "l", "i", "m", "i", "t">>
  @@ "quota" :> <<"q", "u", "o", "t", "a">>
  @@ "auth" :> <<"a", "u", "t", "h">>
  @@ "unauthorized" :> <<"u", "n", "a", "u", "t", "h", "o", "r", "i", "z", "e", "d">>
  @@ "api key" :> <<"a", "p", "i", " ", "k", "e", "y">>
  @@ "store" :> <<"s", "t", "o", "r", "e">>
  @@ "not found" :> <<"n", "o", "t", " ", "f", "o", "u", "n", "d">>
  @@ "network" :> <<"n", "e", "t", "w", "o", "r", "k">>
  @@ "timeout" :> <<"t", "i", "m", "e", "o", "u", "t">>
  @@ "econnrefused" :> <<"e", "c", "o", "n", "n", "r", "e", "f", "u", "s", "e", "d">>
  @@ "enotfound" :> <<"e", "n", "o", "t", "f", "o", "u", "n", "d">>

Keywords == DOMAIN KeywordChars

\* the phrases failure messages are made of, as written, and their characters
PhraseChars ==
  "File Too Large" :> <<"F", "i", "l", "e", " ", "T", "o", "o", " ", "L", "a", "r", "g", "e">>
  @@ "file size" :> <<"f", "i", "l", "e", " ", "s", "i", "z", "e">>
  @@ "Invalid File" :> <<"I", "n", "v", "a", "l", "i", "d", " ", "F", "i", "l", "e">>
  @@ "Unsupported" :> <<"U", "n", "s", "u", "p", "p", "o", "r", "t", "e", "d">>
  @@ "Rate Limit" :> <<"R", "a", "t", "e", " ", "L", "i", "m", "i", "t">>
  @@ "QUOTA" :> <<"Q", "U", "O", "T", "A">>
  @@ "Unauthorized" :> <<"U", "n", "a", "u", "t", "h", "o", "r", "i", "z", "e", "d">>
  @@ "API Key" :> <<"A", "P", "I", " ", "K", "e", "y">>
  @@ "Store" :> <<"S", "t", "o", "r", "e">>
  @@ "Not Found" :> <<"N", "o", "t", " ", "F", "o", "u", "n", "d">>
  @@ "Network" :> <<"N", "e", "t", "w", "o", "r", "k">>
  @@ "Timeout" :> <<"T", "i", "m", "e", "o", "u", "t">>
  @@ "ECONNREFUSED" :> <<"E", "C", "O", "N", "N", "R", "E", "F", "U", "S", "E", "D">>
  @@ "ENOTFOUND" :> <<"E", "N", "O", "T", "F", "O", "U", "N", "D">>
  @@ "Authentication" :> <<"A", "u", "t", "h", "e", "n", "t", "i", "c", "a", "t", "i", "o", "n">>
  @@ "oops" :> <<"o", "o", "p", "s">>

Phrases == DOMAIN PhraseChars

\* String.prototype.toLowerCase on one character
LowerChar(c) ==
  CASE c = "A" -> "a"
    [] c = "B" -> "b"
    [] c = "C" -> "c"
    [] c = "D" -> "d"
    [] c = "E" -> "e"
    [] c = "F" -> "f"
    [] c = "G" -> "g"
    [] c = "H" -> "h"
    [] c = "I" -> "i"
    [] c = "J" -> "j"
    [] c = "K" -> "k"
    [] c = "L" -> "l"
    [] c = "M" -> "m"
    [] c = "N" -> "n"
    [] c = "O" -> "o"
    [] c = "P" -> "p"
    [] c = "Q" -> "q"
    [] c = "R" -> "r"
    [] c = "S" -> "s"
    [] c = "T" -> "t"
    [] c = "U" -> "u"
    [] c = "V" -> "v"
    [] c = "W" -> "w"
    [] c = "X" -> "x"
    [] c = "Y" -> "y"
    [] c = "Z" -> "z"
    [] OTHER -> c

toLowerCaseIdentity(chars) == chars

\* error.message.toLowerCase()  (line 189)
toLowerCase(chars) == [i \in DOMAIN chars |-> LowerChar(chars[i])]

\* String.prototype.includes
Contains(chars, part) ==
  \E i \in 1..(Len(chars) - Len(part) + 1) :
    SubSeq(chars, i, i + Len(part) - 1) = part

\* the keywords k for which message.includes(k) is true, `message` being the
\* lower-cased text (line 189)
KeywordsIn(chars) ==
  {k \in Keywords : Contains(toLowerCase(chars), KeywordChars[k])}

\* the text of a message made of the phrases ps, separated by spaces
RECURSIVE JoinChars(_)
JoinChars(ps) ==
  IF ps = << >> THEN << >>
  ELSE IF Len(ps) = 1 THEN PhraseChars[ps[1]]
  ELSE PhraseChars[ps[1]] \o <<" ">> \o JoinChars(Tail(ps))

RECURSIVE JoinText(_)
JoinText(ps) ==
  IF ps = << >> THEN ""
  ELSE IF Len(ps) = 1 THEN ps[1]
  ELSE ps[1] \o " " \o JoinText(Tail(ps))

\* the sequences of at most MaxPhrases phrases
PhraseSeqs == UNION {[1..n -> Phrases] : n \in 0..MaxPhrases}

\* new Error(text) carries `message`; what includes() finds in it is `kw`
ProbeMsg(ps) == Msg(JoinText(ps), KeywordsIn(JoinChars(ps)), 0)

\* the status codes of the failures tried (0: the failure has no status)
ProbeStatuses == {0, 400, 401, 403, 404, 408, 429, 500, 502, 503, 504}

\* a details map an MCPError may have been constructed with
SomeDetails ==
  [present |-> TRUE, original_error |-> Msg("oops", {}, 0), name |-> "Error"]

\* the values parseGeminiError and isRetryable are applied to, each with the
\* phrases of its message: Error objects (with and without a status),
\* MCPErrors, plain strings, plain objects, and null / undefined / a number
ProbeInputs ==
  {[phrases |-> ps, flagPassed |-> FALSE,
     input |-> GenericError(n, ProbeMsg(ps), 0)] :
     ps \in PhraseSeqs, n \in {"Error", "TypeError"}}
  \cup {[phrases |-> ps, flagPassed |-> FALSE,
         input |-> GenericError("Error", ProbeMsg(ps), st)] :
          ps \in {q \in PhraseSeqs : Len(q) <= 1}, st \in ProbeStatuses}
  \cup {[phrases |-> ps, flagPassed |-> FALSE,
         input |-> StringFailure(ProbeMsg(ps))] : ps \in PhraseSeqs}
  \cup {[phrases |-> ps, flagPassed |-> TRUE,
         input |-> MCPError(c, ProbeMsg(ps), r, d)] :
          ps \in {q \in PhraseSeqs : Len(q) <= 1}, c \in ErrorCode,
          r \in BOOLEAN, d \in {NoDetails, SomeDetails}}
  \cup {[phrases |-> ps, flagPassed |-> FALSE,
         input |-> MCPErrorDefaulted(c, ProbeMsg(ps))] :
          ps \in {q \in PhraseSeqs : Len(q) <= 1}, c \in ErrorCode}
  \cup {[phrases |-> << >>, flagPassed |-> FALSE, input |-> ObjectFailure(st)] :
          st \in ProbeStatuses}
  \cup {[phrases |-> << >>, flagPassed |-> FALSE, input |-> NullFailure]}

InitClassify ==
  /\ retry = RetryIdle
  /\ remoteStores = << >>
  /\ remoteFiles = {}
  /\ storeId = 0
  /\ storeName = ""
  /\ tasks = [t \in TaskIds |-> IdleTask]
  /\ opsStarted = 0
  /\ uploads = 0
  /\ resolutions = 0
  /\ resolvedId = [n \in StoreNames |-> 0]
  /\ \E x \in ProbeInputs :
       probe = [ProbeIdle EXCEPT !.pc = "ready", !.phrases = x.phrases,
                                 !.input = x.input,
                                 !.flagPassed = x.flagPassed]
  /\ peer = PeerIdle
  /\ server = ServerIdle
  /\ docs = << >>
  /\ pair = PairIdle
  /\ disk = DiskIdle
  /\ pager = PagerIdle

\* parseGeminiError(input), isRetryable(input) and, for an MCPError,
\* input.toErrorResponse()
Classify ==
  /\ probe.pc = "ready"
  /\ probe' = [probe EXCEPT !.pc = "classified",
                            !.output = parseGeminiError(probe.input),
                            !.judged = isRetryable(probe.input),
                            !.response =
                              IF probe.input.tag = "MCPError"
                                THEN toErrorResponse(probe.input)
                                ELSE NoErrorResponse]
  /\ UNCHANGED <<pager, disk, pair, docs, peer, server, retry, clientVars>>

\* parseGeminiError(parseGeminiError(input))
Reclassify ==
  /\ probe.pc = "classified"
  /\ probe' = [probe EXCEPT !.pc = "reclassified",
                            !.again = parseGeminiError(probe.output)]
  /\ UNCHANGED <<pager, disk, pair, docs, peer, server, retry, clientVars>>

NextClassify == Classify \/ Reclassify

SpecClassify == InitClassify /\ [][NextClassify]_vars

(***************************************************************************)
(* handleErrors wrappers nested `depth` deep around one function: the      *)
(* function runs once; its result or its failure then crosses the          *)
(* wrappers from the innermost (level 1) to the outermost (level depth).   *)
(***************************************************************************)
\* what the wrapped function may throw: the failures the classifier is tried
\* on whose message has at most one phrase
WrapInputs == {x \in ProbeInputs : Len(x.phrases) <= 1}

InitWrap ==
  /\ retry = RetryIdle
  /\ remoteStores = << >>
  /\ remoteFiles = {}
  /\ storeId = 0
  /\ storeName = ""
  /\ tasks = [t \in TaskIds |-> IdleTask]
  /\ opsStarted = 0
  /\ uploads = 0
  /\ resolutions = 0
  /\ resolvedId = [n \in StoreNames |-> 0]
  /\ \E d \in 1..MaxDepth :
       probe = [ProbeIdle EXCEPT !.pc = "ready", !.depth = d]
  /\ peer = PeerIdle
  /\ server = ServerIdle
  /\ docs = << >>
  /\ pair = PairIdle
  /\ disk = DiskIdle
  /\ pager = PagerIdle

\* return await fn();  the innermost function resolves
WrappedResolves ==
  /\ probe.pc = "ready"
  /\ \E v \in ResultValues :
       probe' = [probe EXCEPT !.pc = "resolving", !.invoked = @ + 1,
                              !.value = v, !.carried = v]
  /\ UNCHANGED <<pager, disk, pair, docs, peer, server, retry, clientVars>>

\* the innermost function throws
WrappedRejects ==
  /\ probe.pc = "ready"
  /\ \E x \in WrapInputs :
       probe' = [probe EXCEPT !.pc = "rejecting", !.invoked = @ + 1,
                              !.phrases = x.phrases, !.input = x.input,
                              !.output = x.input]
  /\ UNCHANGED <<pager, disk, pair, docs, peer, server, retry, clientVars>>

\* try { return await fn(); } of the next wrapper out
WrapperReturns ==
  /\ probe.pc = "resolving"
  /\ probe' = [probe EXCEPT !.level = @ + 1,
                            !.pc = IF probe.level + 1 = probe.depth
                                     THEN "returned" ELSE "resolving"]
  /\ UNCHANGED <<pager, disk, pair, docs, peer, server, retry, clientVars>>

\* catch (error) { throw parseGeminiError(error); } of the next wrapper out
WrapperCatches ==
  /\ probe.pc = "rejecting"
  /\ probe' = [probe EXCEPT !.level = @ + 1,
                            !.output = handleErrors(probe.output),
                            !.first = IF probe.level = 0
                                        THEN handleErrors(probe.output)
                                        ELSE probe.first,
                            !.pc = IF probe.level + 1 = probe.depth
                                     THEN "thrown" ELSE "rejecting"]
  /\ UNCHANGED <<pager, disk, pair, docs, peer, server, retry, clientVars>>

NextWrap ==
  WrappedResolves \/ WrappedRejects \/ WrapperReturns \/ WrapperCatches

SpecWrap == InitWrap /\ [][NextWrap]_vars

(***************************************************************************)
(* The fingerprint of an upload (gemini-client.ts 275-296): the content    *)
(* hash and the dedupe key that uploadDocument computes (lines 108-109)    *)
(* from the file's bytes and the metadata argument.                        *)
(***************************************************************************)
\* how many uploads are compared
MaxDocs == 2

\* the contents of the files uploaded, as bytes
FileContents == {<< >>, <<1>>, <<1, 2>>}

\* an absent property / an omitted argument
Undefined == "undefined"

Titles == {Undefined, "A", "B"}

Dois == {Undefined, "X"}

TagLists == {Undefined, "t1"}

Years == {Undefined, "2020"}

\* DocumentMetadataSchema: every field is optional (given: an object was
\* passed as the metadata argument)
MetadataObjects ==
  [given : {TRUE}, title : Titles, doi : Dois, tags : TagLists, year : Years]

\* the metadata argument was omitted
NoMetadata ==
  [given |-> FALSE, title |-> Undefined, doi |-> Undefined, tags |-> Undefined,
   year |-> Undefined]

\* AddDocumentInputSchema: metadata is optional
MetadataArguments == {NoMetadata} \cup MetadataObjects

\* crypto.createHash('sha256').update(data).digest('hex'): a digest is
\* determined by the data and, the digest being injective, determines it
sha256(data) == [sha256 |-> data]

\* calculateFileHash, on the bytes readFile returns
calculateFileHash(content) == sha256(content)

\* one member of a JSON object: nothing when the value is undefined
Member(key, value) ==
  IF value = Undefined THEN << >> ELSE << <<"\"", key, "\":\"", value, "\"">> >>

\* JSON.stringify({ title: metadata.title, doi: metadata.doi }), as the
\* sequence of its pieces: the members that are defined, comma-separated
StringifyTitleDoi(metadata) ==
  LET members == Member("title", metadata.title) \o Member("doi", metadata.doi)
      Piece(i) == IF i = 1 THEN members[1] ELSE <<",">> \o members[i]
  IN  <<"{">>
      \o (IF Len(members) >= 1 THEN Piece(1) ELSE << >>)
      \o (IF Len(members) >= 2 THEN Piece(2) ELSE << >>)
      \o <<"}">>

generateDedupeKeyWithTags(hash, metadata) ==
  sha256(<<hash>> \o (IF ~metadata.given THEN << >>
                      ELSE StringifyTitleDoi(metadata) \o <<metadata.tags>>))

generateDedupeKeyNoHash(hash, metadata) ==
  sha256(IF ~metadata.given THEN << >> ELSE StringifyTitleDoi(metadata))

\* generateDedupeKey: sha256(hash + metaStr); the hash is a fixed-length hex
\* string, so it is one piece of the concatenation
generateDedupeKey(hash, metadata) ==
  sha256(<<hash>> \o (IF ~metadata.given THEN << >>
                      ELSE StringifyTitleDoi(metadata)))

\* the object addDocument returns for the Document it got (add-document.ts
\* 42-49): the properties it sets, and the value of `duplicate` (read only
\* when the property is set)
AddDocumentOutput(hash) ==
  [keys |-> {"success", "doc_id", "store_id", "file_name", "hash", "message"},
   success |-> TRUE, hash |-> hash, duplicate |-> FALSE]

\* uploadDocument(source, metadata), lines 108-109 and 158-169: the part of
\* the returned Document that is the fingerprint, and what add_document
\* answers for it
Fingerprint ==
  /\ Len(docs) < MaxDocs
  /\ \E content \in FileContents, metadata \in MetadataArguments :
       LET hash == calculateFileHash(content)
       IN  docs' = Append(docs, [content |-> content, metadata |-> metadata,
                                 hash |-> hash,
                                 dedupe_key |-> generateDedupeKey(hash, metadata),
                                 output |-> AddDocumentOutput(hash)])
  /\ UNCHANGED <<pager, disk, pair, probe, peer, server, retry, clientVars>>

NextDedupe == Fingerprint

InitDedupe ==
  /\ retry = RetryIdle
  /\ remoteStores = << >>
  /\ remoteFiles = {}
  /\ storeId = 0
  /\ storeName = "X"
  /\ tasks = [t \in TaskIds |-> IdleTask]
  /\ opsStarted = 0
  /\ uploads = 0
  /\ resolutions = 0
  /\ resolvedId = [n \in StoreNames |-> 0]
  /\ probe = ProbeIdle
  /\ peer = PeerIdle
  /\ server = ServerIdle
  /\ docs = << >>
  /\ pair = PairIdle
  /\ disk = DiskIdle
  /\ pager = PagerIdle

SpecDedupe == InitDedupe /\ [][NextDedupe]_vars

(***************************************************************************)
(* The dispatch layer (server.ts) and the tool handlers (tools/*.ts).  The  *)
(* caller of this specification sends one request at a time.  A tool call   *)
(* is validated, runs its client operation in the slot `server.slot`, and   *)
(* is answered when that operation has ended.                               *)
(***************************************************************************)
Tools ==
  {"create_file_store", "add_document", "search", "get_passages",
   "list_documents", "delete_document"}

\* the query strings the search tool is called with
Queries == {"", "q"}

\* the inputs of a tool call (other tools: an input that passes its schema)
ToolInputs ==
  {[tool |-> "search", query |-> q] : q \in Queries}
    \cup {[tool |-> name, query |-> ""] : name \in Tools \ {"search"}}

SearchInputValidAlways(query) == TRUE

\* SearchInputSchema: query: z.string().min(1)
SearchInputValid(query) == query # ""

\* what SearchInputSchema.parse throws for an empty query: the message is
\* the JSON text of the issue list, which holds none of the classifier's keywords
ZodError ==
  GenericError("ZodError",
               Msg("String must contain at least 1 character(s)", {}, 0), 0)

\* the catch branch of the CallToolRequestSchema handler: the JSON object
\* {error: true, message, tool}, with isError: true
ErrorContent(name, error) ==
  [isError |-> TRUE, keys |-> {"error", "message", "tool"},
   message |-> IF error.tag \in {"MCPError", "Error"} THEN error.message
               ELSE Msg("Unknown error", {}, 0),
   tool |-> name]

\* the try branch: the handler's result as JSON text
ResultContent(name) ==
  [isError |-> FALSE, keys |-> {"success"}, message |-> NoMsg, tool |-> name]

\* a request arrives: toolHandlers[name](args) runs up to the end of its input
\* validation; a ZodError goes through the handler's handleErrors to the
\* dispatch layer's catch branch
ToolCall(t) ==
  /\ server.state # "called"
  /\ CanStart(t)
  /\ \E input \in ToolInputs :
       IF input.tool = "search" /\ ~SearchInputValid(input.query)
         THEN /\ server' = [state |-> "responded", tool |-> input.tool,
                            query |-> input.query, slot |-> 0, at |-> opsStarted,
                            thrown |-> handleErrors(ZodError),
                            response |->
                              ErrorContent(input.tool, handleErrors(ZodError))]
              /\ Started
         ELSE /\ server' = [state |-> "called", tool |-> input.tool,
                            query |-> input.query, slot |-> t, at |-> opsStarted,
                            thrown |-> NoFailure, response |-> NoResponse]
              /\ UNCHANGED opsStarted
  /\ UNCHANGED <<pager, disk, pair, docs, probe, peer, retry, remoteStores, remoteFiles, storeId, storeName,
                 tasks, uploads, resolutions, resolvedId>>

\* the validated call enters its client operation, up to the first remote call
ToolRuns(t) ==
  /\ server.state = "called"
  /\ server.slot = t
  /\ server.at = opsStarted
  /\ \/ server.tool = "create_file_store" /\ StartCreateFileStore(t)
     \/ server.tool = "add_document" /\ StartUploadDocument(t)
     \/ server.tool = "search" /\ StartSearchDocuments(t)
     \/ server.tool = "get_passages" /\ StartGetPassages(t)
     \/ server.tool = "list_documents" /\ StartListDocuments(t)
     \/ server.tool = "delete_document" /\ StartDeleteDocument(t)

\* the client operation has ended: the handler returns its output or throws
\* through handleErrors, and the dispatch layer builds the response
ToolReturns(t) ==
  /\ server.state = "called"
  /\ server.slot = t
  /\ server.at < opsStarted
  /\ tasks[t].pc = "done"
  /\ server' =
       IF tasks[t].result.status = "ok"
         THEN [server EXCEPT !.state = "responded",
                             !.response = ResultContent(server.tool)]
         ELSE [server EXCEPT !.state = "responded",
                             !.thrown = handleErrors(tasks[t].result.error),
                             !.response =
                               ErrorContent(server.tool,
                                            handleErrors(tasks[t].result.error))]
  /\ UNCHANGED <<pager, disk, pair, docs, probe, peer, retry, clientVars>>

NextTools ==
  \E t \in TaskIds :
    \/ ToolCall(t)
    \/ ToolRuns(t)
    \/ ToolReturns(t)
    \/ ListResponds(t)
    \/ CreateResponds(t)
    \/ CallResponds(t)

SpecTools == Init /\ [][NextTools]_vars

(***************************************************************************)
(* The resolution protocol against a remote service that a second server    *)
(* process uses too.  The second process runs the same code: `peer` is its  *)
(* resolveStoreByDisplayName(PeerName) call and its own storeId.            *)
(***************************************************************************)
PeerName == "X"

\* how a fetch of the second process may settle
PeerOutcomes == {"ok", "http_error"}

\* a collection that exists when the processes start
Store(id, displayName) == [name |-> id, displayName |-> displayName]

\* ListPageSize collections of another name, then one named X
BeyondFirstPage ==
  [i \in 1..(ListPageSize + 1) |->
     Store(i, IF i <= ListPageSize THEN "Z" ELSE "X")]

\* what the remote service may hold when the processes start
WideRemotes ==
  { << >>,
    <<Store(1, "X")>>,
    <<Store(1, "x")>>,
    <<Store(1, "Y"), Store(2, "X")>>,
    <<Store(1, "X"), Store(2, "X")>>,
    BeyondFirstPage }

InitResolve ==
  /\ retry = RetryIdle
  /\ remoteStores \in WideRemotes
  /\ remoteFiles = {}
  /\ storeId = 0
  /\ storeName = "X"
  /\ tasks = [t \in TaskIds |-> IdleTask]
  /\ opsStarted = 0
  /\ uploads = 0
  /\ resolutions = 0
  /\ resolvedId = [n \in StoreNames |-> 0]
  /\ probe = ProbeIdle
  /\ peer = PeerIdle
  /\ server = ServerIdle
  /\ docs = << >>
  /\ pair = PairIdle
  /\ disk = DiskIdle
  /\ pager = PagerIdle

\* the second process calls resolveStoreByDisplayName (lines 596-600)
PeerStarts ==
  /\ peer.pc = "idle"
  /\ peer' = [peer EXCEPT !.pc = "resolve_list"]
  /\ UNCHANGED <<pager, disk, pair, docs, probe, server, retry, clientVars>>

PeerDone(p, result) == [p EXCEPT !.pc = "done", !.result = result]

\* a listFileStores fetch of the second process completes (601-615, 632-652)
PeerListResponds ==
  /\ peer.pc \in {"resolve_list", "create_list"}
  /\ \E outcome \in PeerOutcomes :
       LET stores == Listing(remoteStores)
           m == MatchingStore(stores, PeerName)
       IN  peer' =
             IF outcome = "http_error"
               THEN PeerDone(peer, [status |-> "err", value |-> 0,
                                    error |-> handleErrors(ListFailed)])
             ELSE IF peer.pc = "resolve_list"
               THEN LET seen == [peer EXCEPT !.listed = stores, !.found = m]
                    IN  IF m # 0
                          THEN PeerDone(seen, [status |-> "ok", value |-> m,
                                               error |-> NoFailure])
                          ELSE [seen EXCEPT !.pc = "create_list"]
               ELSE LET seen == [peer EXCEPT !.existing = m]
                    IN  IF m # 0
                          THEN PeerDone(seen, [status |-> "err", value |-> 0,
                                               error |-> handleErrors(AlreadyExists(m))])
                          ELSE [seen EXCEPT !.pc = "create_post"]
  /\ UNCHANGED <<pager, disk, pair, docs, probe, server, retry, clientVars>>

\* the create POST of the second process completes (654-674)
PeerCreateResponds ==
  /\ peer.pc = "create_post"
  /\ \E outcome \in PeerOutcomes :
       LET newId == Len(remoteStores) + 1
       IN  IF outcome = "http_error"
             THEN /\ peer' = PeerDone(peer, [status |-> "err", value |-> 0,
                                             error |-> handleErrors(CreateFailed)])
                  /\ UNCHANGED remoteStores
             ELSE /\ peer' = PeerDone([peer EXCEPT !.created = newId,
                                                   !.storeId = newId],
                                      [status |-> "ok", value |-> newId,
                                       error |-> NoFailure])
                  /\ remoteStores' = RemoteCreate(remoteStores, PeerName)
  /\ UNCHANGED <<pager, disk, pair, docs, probe, server, retry, remoteFiles, storeId, storeName, tasks,
                 opsStarted, uploads, resolutions, resolvedId>>

NextResolve ==
  \/ PeerStarts
  \/ PeerListResponds
  \/ PeerCreateResponds
  \/ \E t \in TaskIds :
       \/ StartResolveStore(t)
       \/ ListResponds(t)
       \/ CreateResponds(t)

SpecResolve == InitResolve /\ [][NextResolve]_vars

NextRetry == RetryCall \/ FnResolves \/ FnRejects \/ SleepElapsed

SpecRetry == Init /\ [][NextRetry]_vars

\* every pending invocation settles and every wait elapses
SpecRetryLive ==
  /\ Init
  /\ [][NextRetry]_vars
  /\ WF_vars(FnResolves \/ FnRejects)
  /\ WF_vars(SleepElapsed)

(***************************************************************************)
(* Two retryWithBackoff calls in one process, their awaits interleaved by  *)
(* the event loop.  Each call has its own activation: maxAttempts, delays, *)
(* attempt and lastError are locals of the call (lines 126-130).           *)
(***************************************************************************)
\* the failures the units of work of the two calls throw
PairFailures ==
  { MCPError("NETWORK_ERROR", Msg("Network error", {"network"}, 0), TRUE, NoDetails),
    GenericError("Error", Msg("Service unavailable", {}, 0), 503),
    GenericError("Error", Msg("fetch failed", {}, 0), 0) }

LocalsShared(calls, c) == [calls[c] EXCEPT !.attempt = calls[1].attempt]

\* the activation record of call c
Locals(calls, c) == calls[c]

PairCall(c) ==
  /\ pair[c].pc = "idle"
  /\ \E n \in 1..MaxAttemptsBound :
       pair' = [pair EXCEPT ![c] = RetryBegin(n, DEFAULT_DELAYS)]
  /\ UNCHANGED <<pager, disk, docs, probe, peer, server, retry, clientVars>>

PairFnResolves(c) ==
  /\ pair[c].pc = "inflight"
  /\ pair' = [pair EXCEPT ![c] = RetryOnResolve(Locals(pair, c), c)]
  /\ UNCHANGED <<pager, disk, docs, probe, peer, server, retry, clientVars>>

PairFnRejects(c) ==
  /\ pair[c].pc = "inflight"
  /\ \E e \in PairFailures :
       pair' = [pair EXCEPT ![c] = RetryOnReject(Locals(pair, c), e, 0)]
  /\ UNCHANGED <<pager, disk, docs, probe, peer, server, retry, clientVars>>

PairSleepElapsed(c) ==
  /\ pair[c].pc = "sleeping"
  /\ pair' = [pair EXCEPT ![c] = RetryOnSleepElapsed(Locals(pair, c))]
  /\ UNCHANGED <<pager, disk, docs, probe, peer, server, retry, clientVars>>

NextPair ==
  \E c \in PairIds :
    \/ PairCall(c)
    \/ PairFnResolves(c)
    \/ PairFnRejects(c)
    \/ PairSleepElapsed(c)

InitPair == InitDedupe

SpecPair == InitPair /\ [][NextPair]_vars

(***************************************************************************)
(* Properties.                                                             *)
(***************************************************************************)
Tasks == {tasks[t] : t \in TaskIds}

RetryFinished == retry.pc \in {"returned", "thrown"}

Failed(outcome) == outcome.tag # "ok"

\* the failures after which the code makes another attempt, written out:
\* an MCPError whose flag is set or whose code is one of the four retryable
\* codes, or an object carrying one of the six retryable status codes
RetryEligible(f) ==
  \/ /\ f.tag = "MCPError"
     /\ \/ f.retryable
        \/ f.code \in {"RATE_LIMITED", "NETWORK_ERROR", "INDEXING_TIMEOUT", "API_ERROR"}
  \/ /\ f.tag \in {"Error", "object"}
     /\ f.status \in {408, 429, 500, 502, 503, 504}

\* attempt i failed and another attempt follows it (its wait has begun)
Retried(i) == i < retry.calls \/ (i = retry.calls /\ retry.pc = "sleeping")

\* C1 (as claimed): the uploadDocument calls of one process issue at most one
\* create-collection call for the configured display name, and no second
\* collection with that name is created by them.
C1_AtMostOneCreate ==
  /\ \A t1, t2 \in TaskIds :
       (/\ t1 # t2
        /\ tasks[t1].op = "uploadDocument"
        /\ tasks[t2].op = "uploadDocument")
       => tasks[t1].net.create + tasks[t2].net.create <= 1
  /\ Cardinality({t \in TaskIds :
                    /\ tasks[t].op = "uploadDocument"
                    /\ tasks[t].created # 0
                    /\ \E i \in DOMAIN remoteStores :
                         /\ remoteStores[i].name = tasks[t].created
                         /\ remoteStores[i].displayName = storeName}) <= 1

\* C2: a unit of work that fails on every invocation with a retryable error is
\* invoked exactly maxAttempts times, and the call then fails with the error of
\* the last invocation.
C2_RetriesUpToMaxAttempts ==
  (/\ RetryFinished
   /\ \A i \in DOMAIN retry.outcomes :
        Failed(retry.outcomes[i]) /\ RetryEligible(retry.outcomes[i]))
  => /\ retry.pc = "thrown"
     /\ retry.calls = retry.maxAttempts
     /\ Len(retry.outcomes) = retry.maxAttempts
     /\ retry.thrown = retry.outcomes[retry.maxAttempts]

C2_Witness ==
  /\ retry.pc = "thrown"
  /\ retry.maxAttempts = 3
  /\ retry.calls = 3
  /\ \A i \in DOMAIN retry.outcomes : RetryEligible(retry.outcomes[i])

\* C3 (as claimed): a first failure whose classified error has retryable = false
\* ends the call after one invocation and without a wait.
C3_ClassifiedNonRetryableOnce ==
  (/\ Len(retry.outcomes) >= 1
   /\ Failed(retry.outcomes[1])
   /\ ~parseGeminiError(retry.outcomes[1]).retryable)
  => /\ retry.calls = 1
     /\ retry.sleeps = << >>
     /\ retry.pc = "thrown"

\* C3 (amended): a first failure that is not retry-eligible (an MCPError with
\* retryable = false and a code outside the four retryable codes, or any other
\* value without a retryable status code) ends the call after one invocation,
\* whatever maxAttempts is, and without a wait.
C3_NonRetryableOnce ==
  (/\ Len(retry.outcomes) >= 1
   /\ Failed(retry.outcomes[1])
   /\ ~RetryEligible(retry.outcomes[1]))
  => /\ retry.calls = 1
     /\ retry.sleeps = << >>
     /\ retry.observed = << >>
     /\ retry.pc = "thrown"
     /\ retry.thrown = retry.outcomes[1]

C3_Witness ==
  /\ retry.maxAttempts = 3
  /\ retry.pc = "thrown"
  /\ retry.calls = 1
  /\ retry.outcomes[1].tag = "MCPError"
  /\ ~RetryEligible(retry.outcomes[1])

DetailsMention(details, id) == details.present /\ details.original_error.id = id

\* the first collection of a listing with the display name (0: none)
FirstNamed(stores, displayName) ==
  IF \E i \in DOMAIN stores : stores[i].displayName = displayName
    THEN LET first == CHOOSE i \in DOMAIN stores :
                        /\ stores[i].displayName = displayName
                        /\ \A j \in 1..(i - 1) : stores[j].displayName # displayName
         IN  stores[first].name
    ELSE 0

CreatedBy(t) ==
  /\ tasks[t].pc = "create_post"
  /\ tasks'[t].pc # "create_post"
  /\ Len(remoteStores') = Len(remoteStores) + 1
  /\ storeId' = remoteStores'[Len(remoteStores')].name

\* an uploadDocument / ensureFileStore call that began its resolution while the
\* id was unset resumes with the id its listing found
ResumedBy(t) ==
  /\ tasks[t].pc = "resolve_list"
  /\ tasks[t].op \in {"uploadDocument", "ensureFileStore"}
  /\ tasks[t].sidAtStart = 0
  /\ tasks'[t].pc # "resolve_list"
  /\ storeId' = tasks'[t].found

\* C9 (as claimed): once storeId holds a value no step changes it.
C9_WrittenOnce == [][storeId # 0 => storeId' = storeId]_vars

\* C9 (amended): storeId is written only by a successful create-collection call
\* of createFileStore (the create_file_store tool or the creation step of a
\* resolution), which overwrites it with the new id, and by an uploadDocument /
\* ensureFileStore call that began resolving while it was unset and assigns the
\* id it found; no other step (search, list, delete, get_passages, an
\* add_document begun after it holds a value) changes it.
C9_WrittenOnlyByCreateOrResolution ==
  [][storeId' # storeId => \E t \in TaskIds : CreatedBy(t) \/ ResumedBy(t)]_vars

C9_Witness ==
  \E t1, t2 \in TaskIds :
    /\ tasks[t1].op = "uploadDocument"
    /\ tasks[t1].pc = "done"
    /\ tasks[t1].result.status = "ok"
    /\ tasks[t1].result.value # 0
    /\ tasks[t2].op = "createFileStore"
    /\ tasks[t2].pc = "done"
    /\ tasks[t2].result.status = "ok"
    /\ tasks[t2].result.value = storeId
    /\ tasks[t1].result.value # storeId

\* C10 (as claimed): at most one resolution attempt is performed in a process.
C10_AtMostOneResolution == resolutions <= 1

\* C10 (amended): a collection-dependent operation starts a resolution attempt
\* only while storeId is unset, so none is started once an attempt has stored
\* an id; the number of attempts is not bounded by one: a failed attempt leaves
\* storeId unset and the next operation attempts again, as does an operation
\* started while an attempt is in flight.
C10_ResolutionOnlyWhileUnset ==
  [][resolutions' # resolutions
       => /\ storeId = 0
          /\ resolutions' = resolutions + 1
          /\ \E t \in TaskIds :
               /\ tasks'[t].pc = "resolve_list"
               /\ tasks'[t].sidAtStart = 0
               /\ tasks'[t].net.list = 1]_vars

C10_Witness ==
  /\ resolutions = 2
  /\ storeId = 0
  /\ \E t1, t2 \in TaskIds :
       /\ tasks[t1].op = "uploadDocument"
       /\ tasks[t1].pc = "done"
       /\ tasks[t1].result.status = "err"
       /\ tasks[t1].net.list = 1
       /\ tasks[t2].op = "uploadDocument"
       /\ tasks[t2].pc = "resolve_list"

\* C11 (as stated): for every tool call that fails, the response returned by
\* the dispatch layer carries the error code of the classified error, its
\* message and its retryable flag.
C11_ResponseCarriesKindAndFlag ==
  (server.state = "responded" /\ server.response.isError) =>
    /\ {"error_code", "message", "retryable"} \subseteq server.response.keys
    /\ server.response.message = server.thrown.message

\* C15: the search tool called with an empty query fails input validation in
\* the step of the request itself: the client operation is never entered, no
\* task changes and nothing is sent to the remote service.
C15_EmptyQueryNoRemoteCall ==
  [][ /\ ~(server'.state = "called" /\ server'.tool = "search"
            /\ server'.query = "")
      /\ (server' # server /\ server'.state = "responded"
            /\ server'.tool = "search" /\ server'.query = "") =>
           /\ server.state # "called"
           /\ server'.response.isError
           /\ server'.thrown = parseGeminiError(ZodError)
           /\ tasks' = tasks
           /\ remoteFiles' = remoteFiles
           /\ remoteStores' = remoteStores ]_vars

C15_Witness ==
  /\ server.state = "responded"
  /\ server.tool = "search"
  /\ server.query = ""
  /\ server.response.isError
  /\ \A t \in TaskIds : tasks[t].op # "searchDocuments"

\* C12 (as stated): every remote call runs inside the retry executor, so an
\* operation fails by a retryable failure of a remote call (an HTTP error of
\* list-collections or of the existence check, a 503 of an SDK call) only
\* when that call was made under retryWithBackoff and its attempts are
\* exhausted.
C12_RetriedBeforeFailing ==
  [][ \A t \in TaskIds :
        ( /\ tasks[t].pc \in {"resolve_list", "create_list", "check", "call"}
          /\ tasks'[t].pc = "done"
          /\ tasks'[t].result.status = "err"
          /\ tasks'[t].result.error \in
               {ListFailed, CheckFailed, parseGeminiError(SdkUnavailable)} )
        => /\ tasks[t].wrapped
           /\ tasks[t].r.attempt = tasks[t].r.maxAttempts ]_vars

\* the positions of the remote collections whose display name is `name`
Named(name) == {i \in DOMAIN remoteStores : remoteStores[i].displayName = name}

\* task t takes the step that receives the listing of its resolution
ResolveListed(t) ==
  /\ tasks[t].op = "resolveStoreByDisplayName"
  /\ tasks[t].pc = "resolve_list"
  /\ tasks'[t] # tasks[t]
  /\ ~(tasks'[t].pc = "done" /\ tasks'[t].result.status = "err")

\* task t takes a step that issues a create-collection call
CreateIssued(t) ==
  /\ tasks[t].op = "resolveStoreByDisplayName"
  /\ tasks'[t].net.create = tasks[t].net.create + 1

\* C13 (as stated): whatever collections exist, if one of them has exactly
\* the requested display name when resolveStoreByDisplayName lists, the call
\* returns that collection's id and issues no create-collection call; a
\* create-collection call is issued only when no collection of that name
\* exists, and then exactly one.
C13_ExistingFoundNoCreate ==
  [][ \A t \in TaskIds :
        /\ ResolveListed(t) =>
             IF Named(tasks[t].displayName) # {}
               THEN /\ tasks'[t].pc = "done"
                    /\ tasks'[t].result.status = "ok"
                    /\ \E i \in Named(tasks[t].displayName) :
                         tasks'[t].result.value = remoteStores[i].name
                    /\ tasks'[t].net.create = 0
               ELSE tasks'[t].pc = "create_list"
        /\ CreateIssued(t) =>
             /\ Named(tasks[t].displayName) = {}
             /\ tasks'[t].net.create = 1 ]_vars

\* C13 (amended): the same, for the collections of the first page of the
\* listing (the first ListPageSize collections): the id returned is that of
\* the first collection of the page with exactly the requested name; a
\* create-collection call is issued only after two listings, the one of the
\* resolution and the one of createFileStore, whose pages hold no collection
\* of that name, and at most one is issued per call.
C13_FirstPageMatchNoCreate ==
  [][ \A t \in TaskIds :
        LET onPage == {i \in Named(tasks[t].displayName) : i <= ListPageSize}
        IN  /\ ResolveListed(t) =>
                 IF onPage # {}
                   THEN /\ tasks'[t].pc = "done"
                        /\ tasks'[t].result.status = "ok"
                        /\ \E i \in onPage :
                             /\ \A j \in onPage : i <= j
                             /\ tasks'[t].result.value = remoteStores[i].name
                        /\ tasks'[t].net.create = 0
                   ELSE /\ tasks'[t].pc = "create_list"
                        /\ tasks'[t].net.create = 0
            /\ CreateIssued(t) =>
                 /\ onPage = {}
                 /\ tasks[t].pc = "create_list"
                 /\ tasks[t].found = 0
                 /\ tasks'[t].net.create = 1 ]_vars

C13_Witness ==
  \E t \in TaskIds :
    /\ tasks[t].op = "resolveStoreByDisplayName"
    /\ tasks[t].pc = "done"
    /\ tasks[t].result.status = "ok"
    /\ tasks[t].found # 0
    /\ tasks[t].result.value = tasks[t].found
    /\ tasks[t].net.create = 0
    /\ Len(remoteStores) >= 2

\* task t is a resolution of the peer's name that saw no such collection in
\* either of its listings and whose create-collection call has succeeded
CreatedUnseen(t) ==
  /\ tasks[t].op = "resolveStoreByDisplayName"
  /\ tasks[t].displayName = PeerName
  /\ tasks[t].found = 0
  /\ tasks[t].existing = 0
  /\ tasks[t].created # 0

\* the second process likewise
PeerCreatedUnseen ==
  /\ peer.found = 0
  /\ peer.existing = 0
  /\ peer.created # 0

\* C14: when two processes resolving the same display name have both observed
\* "not found" and both created, the remote service holds two different
\* collections with that display name, one made by each (nothing in the
\* protocol or in the service prevents it).
C14_BothCreateLeavesTwo ==
  \A t \in TaskIds :
    (CreatedUnseen(t) /\ PeerCreatedUnseen) =>
      /\ tasks[t].created # peer.created
      /\ \A id \in {tasks[t].created, peer.created} :
           \E i \in DOMAIN remoteStores :
             /\ remoteStores[i].name = id
             /\ remoteStores[i].displayName = PeerName

\* the race: the service held no collection at first, and now holds two of
\* the same display name, one created by each process
C14_Witness ==
  /\ Len(remoteStores) = 2
  /\ \A i \in DOMAIN remoteStores : remoteStores[i].displayName = PeerName
  /\ PeerCreatedUnseen
  /\ peer.listed = << >>
  /\ \E t \in TaskIds : CreatedUnseen(t) /\ tasks[t].listed = << >>

\* C16: an uploadDocument call begun on a client with no store id and no
\* configured display name has failed with STORE_NOT_FOUND, retryable = false,
\* without any remote call; the source is not looked at (a missing file gives
\* the same failure, not FILE_NOT_FOUND).
C16_UnconfiguredUploadFails ==
  \A t \in TaskIds :
    (tasks[t].op = "uploadDocument" /\ tasks[t].sidAtStart = 0 /\ storeName = "")
      => /\ tasks[t].pc = "done"
         /\ tasks[t].result.status = "err"
         /\ tasks[t].result.error.tag = "MCPError"
         /\ tasks[t].result.error.code = "STORE_NOT_FOUND"
         /\ tasks[t].result.error.retryable = FALSE
         /\ tasks[t].net = [list |-> 0, create |-> 0, check |-> 0, files |-> 0]

C16_Witness ==
  /\ storeName = ""
  /\ \E t \in TaskIds :
       /\ tasks[t].op = "uploadDocument"
       /\ tasks[t].arg = "/missing.pdf"
       /\ tasks[t].sidAtStart = 0
       /\ tasks[t].result.error.code = "STORE_NOT_FOUND"

\* the reference classifier reads the characters of the message itself: the
\* text holds keyword k, letter case ignored
RefHas(ps, k) ==
  LET chars == JoinChars(ps)
      part == KeywordChars[k]
  IN  \E i \in 1..(Len(chars) - Len(part) + 1) :
        \A j \in 1..Len(part) : LowerChar(chars[i + j - 1]) = part[j]

\* the keyword groups in priority order: a group matches when one of `any`
\* and every one of `all` is in the text
RefGroups ==
  << [kind |-> "FILE_TOO_LARGE", any |-> {"too large", "file size"}, all |-> {}],
     [kind |-> "INVALID_FILE_TYPE", any |-> {"invalid file", "unsupported"},
      all |-> {}],
     [kind |-> "RATE_LIMITED", any |-> {"rate limit", "quota"}, all |-> {}],
     [kind |-> "AUTH_FAILED", any |-> {"auth", "unauthorized", "api key"},
      all |-> {}],
     [kind |-> "STORE_NOT_FOUND", any |-> {"store"}, all |-> {"store", "not found"}],
     [kind |-> "NETWORK_ERROR",
      any |-> {"network", "timeout", "econnrefused", "enotfound"}, all |-> {}] >>

RefMatches(ps, g) ==
  /\ \E k \in g.any : RefHas(ps, k)
  /\ \A k \in g.all : RefHas(ps, k)

RefKind(ps) ==
  LET hits == {i \in DOMAIN RefGroups : RefMatches(ps, RefGroups[i])}
  IN  IF hits = {} THEN "API_ERROR"
      ELSE RefGroups[CHOOSE i \in hits : \A j \in hits : i <= j].kind

Classified == probe.pc \in {"classified", "reclassified"}

\* what the reference gives for an Error with message text ps: the first
\* matching kind, the message kept, retryable by kind, details of the original
RefOfError(in, out, ps) ==
  /\ out.tag = "MCPError"
  /\ out.code = RefKind(ps)
  /\ out.message = in.message
  /\ out.retryable = (out.code \in {"RATE_LIMITED", "NETWORK_ERROR", "API_ERROR"})
  /\ out.details.present
  /\ out.details.original_error = in.message
  /\ out.details.name = in.name

\* what the reference gives for a value that is not an Error
RefOfOther(in, out) ==
  /\ out.tag = "MCPError"
  /\ out.code = "UNKNOWN_ERROR"
  /\ ~out.retryable
  /\ ~out.details.present
  /\ IF in.tag = "string" THEN out.message = in.message
                          ELSE out.message.text = "Unknown error occurred"

\* C17: for every input parseGeminiError equals the reference classifier: an
\* Error gets the first matching kind in the priority order, else API_ERROR,
\* retryable exactly for RATE_LIMITED, NETWORK_ERROR and API_ERROR, details
\* {original_error, name}; a string gives UNKNOWN_ERROR with the string as
\* message; any other value UNKNOWN_ERROR with the fixed message; the last two
\* not retryable. An input the classifier itself produced (an MCPError) is
\* its own classification.
C17_EqualsReference ==
  Classified =>
    CASE probe.input.tag = "MCPError" -> probe.output = probe.input
      [] probe.input.tag = "Error" ->
           RefOfError(probe.input, probe.output, probe.phrases)
      [] OTHER -> RefOfOther(probe.input, probe.output)

C17_Witness ==
  /\ Classified
  /\ probe.input.tag = "Error"
  /\ RefHas(probe.phrases, "unauthorized")
  /\ RefHas(probe.phrases, "quota")
  /\ probe.output.code = "RATE_LIMITED"

\* C18 (as stated): every failure whose message contains "rate limit" or
\* "quota", letter case ignored, whatever else the message contains, is
\* classified RATE_LIMITED with retryable = true.
C18_RateLimitWhateverElse ==
  (Classified /\ probe.input.tag \in {"Error", "MCPError", "string"}
     /\ (RefHas(probe.phrases, "rate limit") \/ RefHas(probe.phrases, "quota")))
    => /\ probe.output.code = "RATE_LIMITED"
       /\ probe.output.retryable

\* C18 (amended): an Error that is not an MCPError, whose message contains
\* "rate limit" or "quota", letter case ignored, and none of "too large",
\* "file size", "invalid file", "unsupported", is classified RATE_LIMITED with
\* retryable = true, whatever else the message contains.
C18_RateLimitUnlessEarlierGroup ==
  (Classified /\ probe.input.tag = "Error"
     /\ (RefHas(probe.phrases, "rate limit") \/ RefHas(probe.phrases, "quota"))
     /\ \A k \in {"too large", "file size", "invalid file", "unsupported"} :
          ~RefHas(probe.phrases, k))
    => /\ probe.output.code = "RATE_LIMITED"
       /\ probe.output.retryable

C18_Witness ==
  /\ Classified
  /\ probe.input.tag = "Error"
  /\ probe.phrases = <<"Network", "QUOTA">>
  /\ probe.output.code = "RATE_LIMITED"
  /\ probe.output.retryable

\* C19: classifying twice gives the same error as classifying once (kind,
\* message, retryable, details), and an MCPError is returned unchanged.
C19_Idempotent ==
  /\ probe.pc = "reclassified" => probe.again = probe.output
  /\ (Classified /\ probe.input.tag = "MCPError") => probe.output = probe.input

C19_Witness ==
  /\ probe.pc = "reclassified"
  /\ probe.input.tag = "Error"
  /\ probe.output.details.present
  /\ probe.again.code = "STORE_NOT_FOUND"

\* C20: for an object with a status code (an Error or a plain object),
\* isRetryable is true when the status is 408, 429, 500, 502, 503 or 504 and
\* false when it is 400, 401, 403 or 404, whatever the message; for a string
\* and for null / undefined / a number it is false.
C20_RetryableByStatus ==
  Classified =>
    /\ (probe.input.tag \in {"Error", "object"}
          /\ probe.input.status \in {408, 429, 500, 502, 503, 504})
         => probe.judged
    /\ (probe.input.tag \in {"Error", "object"}
          /\ probe.input.status \in {400, 401, 403, 404})
         => ~probe.judged
    /\ probe.input.tag \in {"string", "null"} => ~probe.judged

C20_Witness ==
  /\ Classified
  /\ probe.input.tag = "Error"
  /\ probe.input.status = 408
  /\ RefHas(probe.phrases, "api key")
  /\ probe.judged

\* C21: an MCPError constructed without a retryable argument carries the
\* default of its kind (true for RATE_LIMITED and NETWORK_ERROR, false for
\* AUTH_FAILED and FILE_NOT_FOUND), so the flag that toErrorResponse reports
\* agrees with isRetryable.
C21_DefaultFlagFollowsKind ==
  (Classified /\ probe.input.tag = "MCPError" /\ ~probe.flagPassed) =>
    /\ probe.input.code \in {"RATE_LIMITED", "NETWORK_ERROR"}
         => probe.input.retryable
    /\ probe.input.code \in {"AUTH_FAILED", "FILE_NOT_FOUND"}
         => ~probe.input.retryable
    /\ probe.response.retryable = probe.judged

\* invocations of the unit of work that have started and not yet settled
InFlight == retry.calls - Len(retry.outcomes)

\* C22: within one retryWithBackoff call the invocations are sequential: at
\* most one is in flight at any time, and invocation k+1 starts only in the
\* step in which the wait after attempt k elapses, invocation k having failed
\* with a failure judged retryable.
C22_AttemptsSequential ==
  /\ [](/\ InFlight \in {0, 1}
        /\ InFlight = 1 <=> retry.pc = "inflight")
  /\ [][retry'.calls # retry.calls =>
         /\ retry'.calls = retry.calls + 1
         /\ retry'.pc = "inflight"
         /\ \/ retry.pc = "idle" /\ retry.calls = 0
            \/ /\ retry.pc = "sleeping"
               /\ Len(retry.outcomes) = retry.calls
               /\ Len(retry.sleeps) = retry.calls
               /\ Failed(retry.outcomes[retry.calls])
               /\ isRetryable(retry.outcomes[retry.calls])]_vars

C22_Witness ==
  /\ retry.pc = "inflight"
  /\ retry.calls = 3
  /\ Len(retry.sleeps) = 2
  /\ Len(retry.outcomes) = 2

\* C23: the observer is called once for each failed attempt that is followed
\* by another attempt, with the attempt's number (from 1) and the failure as it
\* was thrown, in the step that handles the failure and before the wait
\* elapses; it is not called after a success, after a failure that ends the
\* call, or after the final attempt, so a finished call has made one observer
\* call fewer than invocations.
C23_ObserverOncePerRetry ==
  /\ [](/\ Len(retry.observed) = Len(retry.sleeps)
        /\ \A i \in DOMAIN retry.observed :
             /\ retry.observed[i].attempt = i
             /\ i \in DOMAIN retry.outcomes
             /\ retry.observed[i].error = retry.outcomes[i]
             /\ Failed(retry.outcomes[i])
             /\ Retried(i)
        /\ \A i \in DOMAIN retry.outcomes :
             Retried(i) => i \in DOMAIN retry.observed
        /\ RetryFinished => Len(retry.observed) = retry.calls - 1)
  /\ [][retry'.observed # retry.observed =>
         /\ retry.pc = "inflight"
         /\ retry'.pc = "sleeping"
         /\ Len(retry'.observed) = Len(retry.observed) + 1
         /\ Len(retry'.outcomes) = Len(retry.outcomes) + 1]_vars

C23_Witness ==
  /\ retry.pc = "returned"
  /\ retry.calls = 3
  /\ Len(retry.observed) = 2
  /\ retry.observed[2].attempt = 2
  /\ retry.observed[2].error.tag = "object"

\* C24: when invocation k succeeds, all earlier ones having failed retryably,
\* the call returns what that invocation resolved with, the unit of work has
\* been invoked exactly k times (k <= maxAttempts), only the k - 1 waits
\* between the invocations were made, and nothing follows the return.
C24_SuccessReturnsAtOnce ==
  /\ [](retry.pc = "returned" =>
          LET k == Len(retry.outcomes)
          IN  /\ k >= 1 /\ k <= retry.maxAttempts
              /\ retry.calls = k
              /\ ~Failed(retry.outcomes[k])
              /\ \A i \in 1..(k - 1) :
                   Failed(retry.outcomes[i]) /\ RetryEligible(retry.outcomes[i])
              /\ retry.resolved \in ResultValues
              /\ retry.returned = retry.resolved
              /\ Len(retry.sleeps) = k - 1)
  /\ [][(\E i \in DOMAIN retry.outcomes : ~Failed(retry.outcomes[i]))
         => retry' = retry]_vars
  /\ [][(retry.pc = "inflight" /\ Len(retry'.outcomes) > Len(retry.outcomes)
           /\ ~Failed(retry'.outcomes[Len(retry'.outcomes)]))
         => /\ retry'.pc = "returned"
            /\ retry'.sleeps = retry.sleeps
            /\ retry'.calls = retry.calls]_vars

C24_Witness ==
  /\ retry.pc = "returned"
  /\ retry.maxAttempts = 3
  /\ retry.calls = 2
  /\ retry.returned = 2
  /\ Len(retry.sleeps) = 1

\* C25: the wait after failed attempt k is base + jitter with 0 <= jitter <
\* 200, where base is the k-th entry of the delay schedule when the schedule
\* has one and the last entry of the schedule otherwise; under the default
\* policy (three attempts, schedule 500, 1000, 2000) the bases are 500 and
\* then 1000.
C25_DelayFromSchedule ==
  \A k \in DOMAIN retry.sleeps :
    LET d == retry.delays
        w == retry.sleeps[k]
    IN  /\ w.delay = w.base + w.jitter
        /\ 0 <= w.jitter /\ w.jitter < 200
        /\ k <= Len(d) => w.base = d[k]
        /\ (k > Len(d) /\ Len(d) > 0) => w.base = d[Len(d)]
        /\ (retry.maxAttempts = 3 /\ d = <<500, 1000, 2000>>)
             => (k <= 2 /\ w.base = <<500, 1000>>[k])

C25_Witness ==
  /\ retry.delays = <<100>>
  /\ Len(retry.sleeps) = 2
  /\ retry.sleeps[2].base = 100
  /\ retry.sleeps[2].delay = 299

\* C26: for every policy with maxAttempts >= 1 and every sequence of outcomes,
\* when every invocation settles and every wait elapses, a call that has begun
\* eventually returns or throws, and it has then invoked the unit of work at
\* least once and at most maxAttempts times.
C26_Terminates ==
  /\ (retry.pc \in {"inflight", "sleeping"}) ~> RetryFinished
  /\ [](retry.calls <= retry.maxAttempts)
  /\ [](RetryFinished => (1 <= retry.calls /\ retry.calls = Len(retry.outcomes)))

C26_Witness ==
  /\ retry.pc = "thrown"
  /\ retry.maxAttempts = 2
  /\ retry.calls = 2
  /\ Len(retry.sleeps) = 1
  /\ retry.delays = << >>

\* C27: through any nesting of handleErrors wrappers the error surfaced by the
\* outermost wrapper is the MCPError produced at the innermost failure point
\* (the MCPError that was thrown, or else the classification made by the
\* innermost wrapper), with the same kind, message, retryable flag and
\* details; a result passes through unchanged; the wrapped function is
\* invoked exactly once.
C27_PropagatedUnchanged ==
  /\ (probe.pc \in {"rejecting", "thrown"} /\ probe.level >= 1) =>
       /\ probe.output.tag = "MCPError"
       /\ probe.output = probe.first
       /\ probe.input.tag = "MCPError" => probe.output = probe.input
       /\ probe.invoked = 1
  /\ probe.pc \in {"resolving", "returned"} =>
       /\ probe.carried = probe.value
       /\ probe.invoked = 1

C27_Witness ==
  /\ probe.pc = "thrown"
  /\ probe.depth = 3
  /\ probe.level = 3
  /\ probe.input.tag = "MCPError"
  /\ probe.input.code = "DOWNLOAD_FAILED"
  /\ probe.input.details.present
  /\ probe.output = probe.input

\* the title and doi of a metadata argument (undefined when it was omitted)
CanonicalOf(metadata) == <<metadata.title, metadata.doi>>

\* C28: two uploads with identical bytes, identical title (or both absent) and
\* identical doi (or both absent) have the same dedupe_key, whether the
\* metadata argument was omitted or was an object without title and doi.
C28_KeyFunctionOfBytesTitleDoi ==
  \A i, j \in DOMAIN docs :
    (/\ docs[i].content = docs[j].content
     /\ CanonicalOf(docs[i].metadata) = CanonicalOf(docs[j].metadata))
    => docs[i].dedupe_key = docs[j].dedupe_key

\* C29: two uploads with the same bytes that both pass a metadata object with
\* the same title and doi have the same dedupe_key and the same content hash,
\* whatever their other metadata fields are.
C29_NonCanonicalIgnored ==
  \A i, j \in DOMAIN docs :
    (/\ docs[i].content = docs[j].content
     /\ docs[i].metadata.given /\ docs[j].metadata.given
     /\ CanonicalOf(docs[i].metadata) = CanonicalOf(docs[j].metadata))
    => /\ docs[i].dedupe_key = docs[j].dedupe_key
       /\ docs[i].hash = docs[j].hash

C29_Witness ==
  /\ Len(docs) = 2
  /\ docs[1].content = docs[2].content
  /\ docs[1].metadata.given /\ docs[2].metadata.given
  /\ docs[1].metadata.title = "A" /\ docs[2].metadata.title = "A"
  /\ docs[1].metadata.doi = "X" /\ docs[2].metadata.doi = "X"
  /\ docs[1].metadata.tags # docs[2].metadata.tags
  /\ docs[1].metadata.year # docs[2].metadata.year
  /\ docs[1].dedupe_key = docs[2].dedupe_key

\* C30: two uploads with the same metadata argument and different bytes have
\* different content hashes and different dedupe keys.
C30_DifferentBytesDifferentFingerprint ==
  \A i, j \in DOMAIN docs :
    (/\ docs[i].content # docs[j].content
     /\ docs[i].metadata = docs[j].metadata)
    => /\ docs[i].hash # docs[j].hash
       /\ docs[i].dedupe_key # docs[j].dedupe_key

C30_Witness ==
  /\ Len(docs) = 2
  /\ docs[1].content = << >>
  /\ docs[2].content = <<1, 2>>
  /\ docs[1].metadata = docs[2].metadata
  /\ docs[1].metadata.given
  /\ docs[1].metadata.title = "B"
  /\ docs[1].dedupe_key # docs[2].dedupe_key

\* C31 (as stated): in every uploadDocument call the content hash and the
\* dedupe key are derived before any remote call of that call is issued, the
\* list-collections and create-collection calls of store resolution included.
C31_HashBeforeAnyRemoteCall ==
  \A t \in TaskIds :
    (tasks[t].op = "uploadDocument" /\ tasks[t].net # NoNet)
    => (tasks[t].hashed /\ tasks[t].hashNet = NoNet)

\* C31 (amended): in every uploadDocument call the content hash and the dedupe
\* key are derived before the upload-file call is issued; the list-collections
\* and create-collection calls of store resolution, when the call makes them,
\* have all been issued before the derivation.
C31_HashBeforeUploadCall ==
  \A t \in TaskIds :
    tasks[t].op = "uploadDocument" =>
      /\ tasks[t].net.files >= 1 => tasks[t].hashed
      /\ tasks[t].hashed =>
           /\ tasks[t].hashNet.files = 0
           /\ tasks[t].hashNet.list = tasks[t].net.list
           /\ tasks[t].hashNet.create = tasks[t].net.create

C31_Witness ==
  \E t \in TaskIds :
    /\ tasks[t].op = "uploadDocument"
    /\ tasks[t].pc = "call"
    /\ tasks[t].hashed
    /\ tasks[t].hashNet.list = 2
    /\ tasks[t].hashNet.create = 1
    /\ tasks[t].net.files = 1

\* one call run alone on the outcomes `outcomes` from position i on: what
\* retryWithBackoff does with its own policy when its unit of work settles
\* with these outcomes in turn, the waits elapsing between them
RECURSIVE RunAlone(_, _, _, _)
RunAlone(r, outcomes, i, value) ==
  IF r.pc = "sleeping" /\ i <= Len(outcomes)
    THEN RunAlone(RetryOnSleepElapsed(r), outcomes, i, value)
  ELSE IF i > Len(outcomes) \/ r.pc # "inflight" THEN r
  ELSE IF Failed(outcomes[i])
    THEN RunAlone(RetryOnReject(r, outcomes[i], 0), outcomes, i + 1, value)
    ELSE RunAlone(RetryOnResolve(r, value), outcomes, i + 1, value)

\* the state call c would be in had it run alone with its policy and the
\* outcomes its unit of work has produced so far
Alone(c) ==
  LET r == pair[c]
      end == RunAlone(RetryBegin(r.maxAttempts, r.delays), r.outcomes, 1, c)
  IN  IF end.pc = "sleeping" /\ r.pc # "sleeping"
        THEN RetryOnSleepElapsed(end) ELSE end

\* C32: two retryWithBackoff calls in progress in one process are
\* independent: in every interleaving of their invocations and waits each
\* call is in the state it would be in had it run alone with its own policy
\* and its own unit of work's outcomes (same invocations, observer calls and
\* outcome), and a step of one call leaves the other call as it was.
C32_CallsIndependent ==
  /\ [](\A c \in PairIds : pair[c].pc # "idle" => pair[c] = Alone(c))
  /\ [][\A c \in PairIds :
          pair'[c] # pair[c] => \A d \in PairIds \ {c} : pair'[d] = pair[d]]_vars

C32_Witness ==
  /\ pair[1].pc = "thrown" /\ pair[1].maxAttempts = 3 /\ pair[1].calls = 3
  /\ pair[2].pc = "returned" /\ pair[2].maxAttempts = 3 /\ pair[2].calls = 2
  /\ Len(pair[2].observed) = 1

\* C33: when add_document is called for a document indexed earlier in the
\* same process (same content hash and same dedupe key), the output of the
\* later call reports duplicate = true.
C33_SecondUploadReportsDuplicate ==
  \A i, j \in DOMAIN docs :
    (/\ i < j
     /\ docs[i].hash = docs[j].hash
     /\ docs[i].dedupe_key = docs[j].dedupe_key)
    => /\ "duplicate" \in docs[j].output.keys
       /\ docs[j].output.duplicate

\* the calls made on the client are uploadDocument calls, and exactly one of
\* them (call t) began while storeId was unset
UploadsAfter(t) ==
  /\ tasks[t].op = "uploadDocument"
  /\ tasks[t].sidAtStart = 0
  /\ \A w \in TaskIds :
       /\ tasks[w].pc # "idle" => tasks[w].op = "uploadDocument"
       /\ (tasks[w].pc # "idle" /\ w # t) => tasks[w].sidAtStart # 0

C35_ResolveNeverAlreadyExists ==
  \A t \in TaskIds :
    (/\ tasks[t].op = "resolveStoreByDisplayName"
     /\ tasks[t].pc = "done")
    => /\ tasks[t].existing = 0
       /\ tasks[t].result.status = "err"
            => \A id \in 1..(Len(remoteStores) + 1) :
                 tasks[t].result.error # handleErrors(AlreadyExists(id))

(***************************************************************************)
(* uploadDocument and the local file system: ensureLocalFile, the hash, the *)
(* retried upload and the cleanup of lines 145-150, on a client whose       *)
(* collection id is already resolved.  Calls are made one after another.    *)
(***************************************************************************)
\* how many uploadDocument calls are made
MaxFileCalls == 2

\* source.startsWith('http://') || source.startsWith('https://')
IsUrl(source) ==
  \/ startsWith(source, <<"h", "t", "t", "p", ":", "/", "/">>)
  \/ startsWith(source, <<"h", "t", "t", "p", "s", ":", "/", "/">>)

\* if (source.startsWith('http'))   (line 146)
CleanupWanted(d) == startsWith(d.source, <<"h", "t", "t", "p">>)

\* path.join(await fs.mkdtemp('/tmp/mcp-gemini-'), fileName): a fresh directory
TempPath(n) == <<"/", "tmp/mcp-gemini-", ToString(n), "/a.pdf">>

\* the MCPError of downloadFile for a response that is not ok
DownloadFailed ==
  MCPError("DOWNLOAD_FAILED", Msg("Failed to download file", {}, 0), FALSE, NoDetails)

\* fs.readFile rejects
ReadFailed == GenericError("Error", Msg("EACCES: permission denied", {}, 0), 0)

\* the call ends: handleErrors classifies what is thrown
DiskThrow(d, error) ==
  [d EXCEPT !.pc = "done", !.r = RetryIdle,
            !.result = [status |-> "err", value |-> 0, error |-> handleErrors(error)]]

DiskReturn(d) ==
  [d EXCEPT !.pc = "done", !.r = RetryIdle,
            !.result = [status |-> "ok", value |-> 1, error |-> NoFailure]]

fileVars == <<pager, pair, docs, probe, peer, server, retry, clientVars>>

\* uploadDocument(source) is called (storeId is set: lines 82-96 are skipped)
FileUploadCalled ==
  /\ disk.pc \in {"idle", "done"}
  /\ disk.calls < MaxFileCalls
  /\ \E source \in FileSources :
       disk' = [DiskIdle EXCEPT !.pc = "ensure", !.source = source,
                                !.files = disk.files,
                                !.existed = source \in disk.files,
                                !.calls = disk.calls + 1]
  /\ UNCHANGED fileVars

\* ensureLocalFile(source) settles (171-183): the download of a URL
\* (188-218) or the fs.access of a path
EnsureLocalFileSettles ==
  /\ disk.pc = "ensure"
  /\ IF IsUrl(disk.source)
       THEN \E outcome \in FetchOutcomes :
              disk' =
                CASE outcome = "http_error" -> DiskThrow(disk, DownloadFailed)
                  [] outcome = "network_error" -> DiskThrow(disk, FetchRejected)
                  [] outcome = "ok" ->
                       LET tempPath == TempPath(disk.calls)
                       IN  [disk EXCEPT !.pc = "hash", !.created = tempPath,
                                        !.localPath = tempPath,
                                        !.files = @ \cup {tempPath}]
       ELSE disk' = IF disk.source \in disk.files
                      THEN [disk EXCEPT !.pc = "hash", !.localPath = disk.source]
                      ELSE DiskThrow(disk, FileNotFound)
  /\ UNCHANGED fileVars

\* calculateFileHash and fs.stat settle (108-113), then the upload is passed
\* to retryWithBackoff (122-136)
HashSettles ==
  /\ disk.pc = "hash"
  /\ \E readable \in BOOLEAN :
       disk' = IF readable
                 THEN [disk EXCEPT !.pc = "upload", !.r = Forget(RetryBegin(3, DEFAULT_DELAYS))]
                 ELSE DiskThrow(disk, ReadFailed)
  /\ UNCHANGED fileVars

\* fileManager.uploadFile settles; a rejection goes through the retry loop,
\* whose wait is part of the step
UploadSettles ==
  /\ disk.pc = "upload"
  /\ \/ disk' = [disk EXCEPT !.r = Forget(RetryOnResolve(disk.r, 1)),
                             !.pc = IF CleanupWanted(disk) THEN "cleanup" ELSE "return"]
     \/ \E e \in {SdkUnavailable, FetchRejected}, j \in JitterValues :
          LET r2 == RetryOnReject(disk.r, e, j)
              r3 == IF r2.pc = "sleeping" THEN RetryOnSleepElapsed(r2) ELSE r2
          IN  disk' = IF r3.pc = "inflight"
                        THEN [disk EXCEPT !.r = Forget(r3)]
                        ELSE DiskThrow(disk, r3.thrown)
  /\ UNCHANGED fileVars

\* fs.unlink(localPath).catch(() => {}) settles (147-149)
CleanupSettles ==
  /\ disk.pc = "cleanup"
  /\ \E unlinked \in BOOLEAN :
       disk' = IF unlinked /\ disk.localPath \in disk.files
                 THEN [disk EXCEPT !.pc = "return", !.files = @ \ {disk.localPath}]
                 ELSE [disk EXCEPT !.pc = "return", !.cleanupFailed = TRUE]
  /\ UNCHANGED fileVars

\* the Document is returned (153-164)
DocumentReturned ==
  /\ disk.pc = "return"
  /\ disk' = DiskReturn(disk)
  /\ UNCHANGED fileVars

NextFiles ==
  \/ FileUploadCalled
  \/ EnsureLocalFileSettles
  \/ HashSettles
  \/ UploadSettles
  \/ CleanupSettles
  \/ DocumentReturned

InitFiles == InitDedupe

SpecFiles == InitFiles /\ [][NextFiles]_vars

\* C36: uploadDocument deletes a file only if it downloaded that file from
\* an http:// or https:// URL during the same call: when the source is one
\* that ensureLocalFile treats as a local path (a relative path whose name
\* starts with "http" included), the source file still exists when the call
\* has completed.
C36_LocalSourceSurvives ==
  (/\ disk.pc = "done"
   /\ ~IsUrl(disk.source)
   /\ disk.existed)
  => disk.source \in disk.files

\* C37: a temporary file created by downloadFile during an uploadDocument
\* call has been deleted when the call completes, whether it succeeds or
\* fails, unless the deletion itself failed.
C37_TempFileGoneAtCompletion ==
  (/\ disk.pc = "done"
   /\ disk.created # << >>
   /\ ~disk.cleanupFailed)
  => disk.created \notin disk.files

\* C38: a tool handler given input that fails its schema validation fails
\* with a classified error whose retryable flag is false and whose kind is
\* VALIDATION_ERROR or INVALID_INPUT (and without any remote-service call).
C38_InvalidInputIsValidationError ==
  (/\ server.state = "responded"
   /\ server.tool = "search"
   /\ ~SearchInputValid(server.query))
  => /\ server.response.isError
     /\ server.thrown.tag = "MCPError"
     /\ ~server.thrown.retryable
     /\ server.thrown.code \in {"VALIDATION_ERROR", "INVALID_INPUT"}

(***************************************************************************)
(* list_documents: the handler (tools/index.ts 75-113) and                  *)
(* GeminiClient.listDocuments (467-533), called several times while the     *)
(* remote service returns the same listing.                                 *)
(***************************************************************************)
\* the longest listing
MaxFiles == 3

\* the largest page_size asked for
MaxPageSize == 2

\* how many list_documents calls are made
MaxListCalls == 4

\* what fileManager.listFiles() returns: files 1..n, oldest or newest first
FileListings ==
  UNION {{[i \in 1..n |-> i], [i \in 1..n |-> n + 1 - i]} : n \in 0..MaxFiles}

\* Array.prototype.slice(start, end) for 0 <= start <= end
slice(a, start, end) ==
  LET stop == IF end < Len(a) THEN end ELSE Len(a)
  IN  [k \in 1..(IF stop > start THEN stop - start ELSE 0) |-> a[start + k]]

\* Math.ceil(a / b) for a >= 0 and b >= 1
MathCeilFloor(a, b) == a \div b

MathCeil(a, b) == IF a % b = 0 THEN a \div b ELSE (a \div b) + 1

PageOfDocumentsZeroBased(allDocuments, page, pageSize) ==
  slice(allDocuments, page * pageSize, page * pageSize + pageSize)

\* startIdx = (page - 1) * pageSize; endIdx = startIdx + pageSize;
\* allDocuments.slice(startIdx, endIdx)   (lines 516-519)
PageOfDocuments(allDocuments, page, pageSize) ==
  slice(allDocuments, (page - 1) * pageSize, (page - 1) * pageSize + pageSize)

pagerFrame == <<disk, pair, docs, probe, peer, server, retry, clientVars>>

\* list_documents({page, page_size}) passes its schema (page >= 1,
\* 1 <= page_size <= 100) and calls geminiClient.listDocuments
ListDocumentsCalled ==
  /\ pager.pc \in {"idle", "returned"}
  /\ pager.calls < MaxListCalls
  /\ \E page \in 1..MaxPage :
       pager' = [pager EXCEPT !.pc = "called", !.page = page, !.calls = @ + 1,
                              !.success = FALSE, !.documents = << >>,
                              !.total_count = 0, !.total_pages = 0]
  /\ UNCHANGED pagerFrame

\* the retried listFiles() returns; the documents are built, sliced and
\* returned with the page counts
ListFilesReturns ==
  /\ pager.pc = "called"
  /\ LET allDocuments == pager.files
         totalCount == Len(allDocuments)
         documents == PageOfDocuments(allDocuments, pager.page, pager.page_size)
     IN  pager' = [pager EXCEPT !.pc = "returned", !.success = TRUE,
                                !.documents = documents,
                                !.total_count = totalCount,
                                !.total_pages = MathCeil(totalCount, pager.page_size),
                                !.fetched = @ \cup {pager.page},
                                !.got[pager.page] = documents]
  /\ UNCHANGED pagerFrame

\* the retried listFiles() throws: the handler throws, nothing is returned
ListFilesThrows ==
  /\ pager.pc = "called"
  /\ pager' = [pager EXCEPT !.pc = "returned"]
  /\ UNCHANGED pagerFrame

NextPages ==
  \/ ListDocumentsCalled
  \/ ListFilesReturns
  \/ ListFilesThrows

InitPages ==
  /\ retry = RetryIdle
  /\ remoteStores = << >>
  /\ remoteFiles = {}
  /\ storeId = 0
  /\ storeName = "X"
  /\ tasks = [t \in TaskIds |-> IdleTask]
  /\ opsStarted = 0
  /\ uploads = 0
  /\ resolutions = 0
  /\ resolvedId = [n \in StoreNames |-> 0]
  /\ probe = ProbeIdle
  /\ peer = PeerIdle
  /\ server = ServerIdle
  /\ docs = << >>
  /\ pair = PairIdle
  /\ disk = DiskIdle
  /\ \E files \in FileListings, s \in 1..MaxPageSize :
       pager = [PagerIdle EXCEPT !.files = files, !.page_size = s]

SpecPages == InitPages /\ [][NextPages]_vars

RECURSIVE PagesUpTo(_, _)
\* the documents of pages 1..p, in page order
PagesUpTo(got, p) == IF p = 0 THEN << >> ELSE PagesUpTo(got, p - 1) \o got[p]

\* the least k with k * s >= n
PagesNeeded(n, s) == CHOOSE k \in 0..n : k * s >= n /\ (k = 0 \/ (k - 1) * s < n)

\* C39: list_documents pagination partitions the listing: for a listing of n
\* files, page p of size s returns exactly the files at positions
\* (p-1)*s+1 .. min(p*s, n) in listing order, with total_count = n and
\* total_pages = ceil(n/s); pages 1..total_pages together hold every file
\* exactly once, and every page beyond total_pages is empty.
C39_PagesPartitionListing ==
  LET n == Len(pager.files)
      s == pager.page_size
      p == pager.page
      last == IF p * s < n THEN p * s ELSE n
  IN  (pager.pc = "returned" /\ pager.success) =>
        /\ pager.total_count = n
        /\ pager.total_pages = PagesNeeded(n, s)
        /\ Len(pager.documents) = (IF last > (p - 1) * s THEN last - (p - 1) * s ELSE 0)
        /\ \A k \in DOMAIN pager.documents :
             pager.documents[k] = pager.files[(p - 1) * s + k]
        /\ p > pager.total_pages => pager.documents = << >>
        /\ (1..pager.total_pages) \subseteq pager.fetched =>
             PagesUpTo(pager.got, pager.total_pages) = pager.files

\* three files listed two per page: pages 1 and 2 (the short last page) and
\* the empty page 3 have all been returned
C39_Witness ==
  /\ pager.pc = "returned" /\ pager.success
  /\ Len(pager.files) = 3 /\ pager.page_size = 2
  /\ pager.total_pages = 2
  /\ pager.fetched = {1, 2, 3}
  /\ Len(pager.got[1]) = 2 /\ Len(pager.got[2]) = 1 /\ pager.got[3] = << >>

====
